---- MODULE Spec2Model ----
(***************************************************************************)
(* Identifier resolution, storage backends and the fallback (cache)         *)
(* resolver of htrc_features (resolvers.py, caching.py, utils.py and the    *)
(* file handlers of parsers.py that copy a volume between resolvers).       *)
(*                                                                          *)
(* Strings are sequences of one-character strings, Python's None is the     *)
(* empty sequence (no input of the model is the empty string), a path is a  *)
(* sequence of segments below the resolver's base directory.                *)
(***************************************************************************)
EXTENDS Naturals, Sequences, FiniteSets, TLC

VARIABLES
    chain,      \* the constructed resolver: its tiers' settings, nearest first; <<>> before construction
    store,      \* per tier: the files, directories, tar archives and web resources behind it
    buffers,    \* per tier: active_buffers of the resolver and of its self.super copy
    last,       \* what the last operation was, what it returned and what it touched
    done,       \* the (id, arguments) pairs an open through a fallback resolver has materialized
    ops,        \* number of open calls made so far
    given,      \* what the caller constructs the resolver from
    archives,   \* Ziptree: the members of every archive file, in the order they were added
    writers,    \* Ziptree: where each of the concurrent writers is in its write
    sha1,       \* Ziptree: the hex digest of every id
    digits,     \* Ziptree: the number of characters of the digest that name the archive
    subject,    \* names: the identifier the functions of utils.py and fname are given
    applied,    \* names: the last function called, its arguments and what it returned
    block,      \* scope: the with block of a resolver the caller is in, and what leaving it did
    procs       \* race: where each of the concurrent callers is in its open

resolver_vars == <<chain, store, buffers, last, done, ops, given>>
ziptree_vars == <<archives, writers, sha1, digits>>
names_vars == <<subject, applied>>
scope_vars == <<block>>
race_vars == <<procs>>
vars == <<resolver_vars, ziptree_vars, names_vars, scope_vars, race_vars>>

-----------------------------------------------------------------------------
(* Strings of the program *)

None == <<>>
DEFAULT == <<"d","e","f","a","u","l","t">>
JSON == <<"j","s","o","n">>
PARQUET == <<"p","a","r","q","u","e","t">>
BZ2 == <<"b","z","2">>
GZ == <<"g","z">>
SNAPPY == <<"s","n","a","p","p","y">>
META == <<"m","e","t","a">>
TOKENS == <<"t","o","k","e","n","s">>
CHARS == <<"c","h","a","r","s">>
SECTION == <<"s","e","c","t","i","o","n">>
TAR == <<".","t","a","r">>
PAIRTREE_ROOT == <<"p","a","i","r","t","r","e","e","_","r","o","o","t">>

-----------------------------------------------------------------------------
(* utils.py: identifier encoding and the directory layouts *)

Replace(s, from, to) == [i \in 1..Len(s) |-> IF s[i] = from THEN to ELSE s[i]]

\* _id_encode that escapes its own escape character, so that encoding twice drifts
_id_encode_drift(id) ==
    Replace(Replace(Replace(Replace(id, "+", "^"), ":", "+"), "/", "="), ".", ",")

_id_encode(id) == Replace(Replace(Replace(id, ":", "+"), "/", "="), ".", ",")

\* _id_decode that leaves the commas in place
_id_decode_commas(id) == Replace(Replace(id, "+", ":"), "=", "/")

_id_decode(id) == Replace(Replace(Replace(id, "+", ":"), "=", "/"), ",", ".")

HasDot(htid) == \E i \in 1..Len(htid) : htid[i] = "."

FirstDot(htid) == CHOOSE i \in 1..Len(htid) : htid[i] = "." /\ \A j \in 1..(i-1) : htid[j] # "."

\* htid.split('.', 1): the library code and the volume part
libid(htid) == SubSeq(htid, 1, FirstDot(htid) - 1)
volid(htid) == SubSeq(htid, FirstDot(htid) + 1, Len(htid))

RECURSIVE Join(_, _)
Join(parts, sep) ==
    IF parts = <<>> THEN <<>>
    ELSE IF Len(parts) = 1 THEN parts[1]
    ELSE parts[1] \o sep \o Join(Tail(parts), sep)

\* [part for part in parts if part is not None]
NotNone(parts) == SelectSeq(parts, LAMBDA p : p # None)

clean_htid(htid) == Join(<<libid(htid), _id_encode(volid(htid))>>, <<".">>)

\* string.endswith(suffix)
EndsWith(string, suffix) ==
    /\ Len(string) >= Len(suffix)
    /\ SubSeq(string, Len(string) - Len(suffix) + 1, Len(string)) = suffix

\* extract_htid's trim
trim(string, suffix) ==
    IF EndsWith(string, suffix) THEN SubSeq(string, 1, Len(string) - Len(suffix)) ELSE string

\* for suffix in suffixes: filename = trim(filename, suffix)
RECURSIVE TrimEach(_, _)
TrimEach(filename, suffixes) ==
    IF suffixes = <<>> THEN filename
    ELSE TrimEach(trim(filename, <<".">> \o Head(suffixes)), Tail(suffixes))

extract_htid(filename) ==
    _id_decode(TrimEach(TrimEach(TrimEach(filename, <<GZ, BZ2>>), <<JSON, PARQUET>>),
                        <<META, TOKENS, CHARS, SECTION>>))

RECURSIVE Pairs(_)
Pairs(clean_id) ==
    IF Len(clean_id) = 0 THEN <<>>
    ELSE IF Len(clean_id) <= 2 THEN <<clean_id>>
    ELSE <<SubSeq(clean_id, 1, 2)>> \o Pairs(SubSeq(clean_id, 3, Len(clean_id)))

\* _id2path that cuts the id as given, not its encoded form
_id2path_raw(id) == Pairs(id)

_id2path(id) == Pairs(_id_encode(id))

\* volid_clean[::3]
EveryThird(s) == [i \in 1..((Len(s) + 2) \div 3) |-> s[3 * (i - 1) + 1]]

\* os.path.join(...), as the sequence of its segments
id_to_pairtree(htid, format, suffix, compression) ==
    <<libid(htid), PAIRTREE_ROOT>> \o _id2path(volid(htid))
        \o <<_id_encode(volid(htid)),
             Join(<<clean_htid(htid)>> \o NotNone(<<format, compression>>), <<".">>)>>

\* id_to_stubbytree that takes every third character of the volume part as given
id_to_stubbytree_raw(htid, format, suffix, compression) ==
    <<libid(htid), EveryThird(volid(htid)),
      Join(<<clean_htid(htid)>> \o NotNone(<<format, compression>>), <<".">>)>>

id_to_stubbytree(htid, format, suffix, compression) ==
    <<libid(htid), EveryThird(_id_encode(volid(htid))),
      Join(<<clean_htid(htid)>> \o NotNone(<<format, compression>>), <<".">>)>>

\* pathlib's .parent
Parent(path) == SubSeq(path, 1, Len(path) - 1)

\* Path(id): the segments between the slashes
RECURSIVE SplitSlash(_)
SplitSlash(s) ==
    IF \A i \in 1..Len(s) : s[i] # "/" THEN (IF s = <<>> THEN <<>> ELSE <<s>>)
    ELSE LET k == CHOOSE i \in 1..Len(s) : s[i] = "/" /\ \A j \in 1..(i-1) : s[j] # "/"
         IN (IF k = 1 THEN <<>> ELSE <<SubSeq(s, 1, k - 1)>>) \o SplitSlash(SubSeq(s, k + 1, Len(s)))

-----------------------------------------------------------------------------
(* resolvers.py: file names *)

\* fname that keeps the compression in the name of a parquet file
fname_compressed(id, format, compression, suffix) ==
    Join(NotNone(<<clean_htid(id), suffix, format, compression>>), <<".">>)

\* fname that puts the suffix behind the format
fname_suffix_last(id, format, compression, suffix) ==
    Join(NotNone(<<clean_htid(id), format, suffix,
                   IF format = PARQUET THEN None ELSE compression>>), <<".">>)

fname(id, format, compression, suffix) ==
    Join(NotNone(<<clean_htid(id), suffix, format,
                   IF format = PARQUET THEN None ELSE compression>>), <<".">>)

-----------------------------------------------------------------------------
(* Stored bytes, streams and the exceptions of the program *)

\* <<what the bytes are, which document they carry, the compression layers applied (outermost last)>>
Bytes(kind, doc, enc) == <<kind, doc, enc>>
EmptyBytes == Bytes("empty", "-", <<>>)      \* a file of length 0
Denied == Bytes("denied", "-", <<>>)         \* a file the process may not open
Dangling == Bytes("dangling", "-", <<>>)     \* a symbolic link into a directory that does not exist
DirMember == Bytes("dir", "-", <<>>)         \* a tar member that is not a regular file
Status404 == Bytes("status404", "-", <<>>)   \* the server answers 404
Status500 == Bytes("status500", "-", <<>>)   \* the server answers 500

OK == "ok"
\* except (MissingDataError, FileNotFoundError)
NotFound == {"FileNotFoundError", "MissingDataError"}
\* except IOError
IOErrors == {"FileNotFoundError", "PermissionError", "NotADirectoryError", "OSError",
             "HTTPError404", "HTTPError500"}

EmptyMap == [x \in {} |-> x]
Put(m, k, v) == [x \in (DOMAIN m) \cup {k} |-> IF x = k THEN v ELSE m[x]]

EmptyTier == [files |-> EmptyMap, dirs |-> {}, tars |-> EmptyMap, web |-> EmptyMap]

NoStream == [raw |-> EmptyBytes, layer |-> None, path |-> <<>>]

\* a compressing stream that stores the bytes as they are written
Compress_stored(data, layer) == data

\* what a compressing stream (bz2.open / gzip.open in 'wb') stores for the bytes written to it
Compress(data, layer) ==
    IF layer = None THEN data ELSE Bytes(data[1], data[2], Append(data[3], layer))

\* fin.read() on a stream returned by open: the error it raises, and the bytes it returns
ReadErr(stream) ==
    IF stream.layer = None \/ stream.raw = EmptyBytes THEN OK
    ELSE IF stream.raw[3] # <<>> /\ stream.raw[3][Len(stream.raw[3])] = stream.layer THEN OK
    ELSE "OSError"

ReadData(stream) ==
    IF stream.layer = None \/ stream.raw = EmptyBytes THEN stream.raw
    ELSE Bytes(stream.raw[1], stream.raw[2], SubSeq(stream.raw[3], 1, Len(stream.raw[3]) - 1))

\* json.loads of the bytes read
JsonLoads(data, kind) == IF data[1] = kind /\ data[3] = <<>> THEN OK ELSE "ValueError"

Event(k, mode, path, err) == [tier |-> k, mode |-> mode, path |-> path, err |-> err]

Logged(w, ev) == [w EXCEPT !.log = Append(@, ev)]

-----------------------------------------------------------------------------
(* resolvers.py: the backends *)

\* every proper ancestor directory of a path, the base directory excluded
Ancestors(path) == {SubSeq(path, 1, n) : n \in 1..(Len(path) - 1)}

LocalResolver_path(id, format, compression, suffix) ==
    <<fname(id, format, compression, suffix)>>

\* Path(id) drops the empty and the '.' segments
PathResolver_path(id) == SelectSeq(SplitSlash(id), LAMBDA segment : segment # <<".">>)

PairtreeResolver_path(id, format, compression, suffix) ==
    Append(Parent(id_to_pairtree(id, format, suffix, compression)),
           fname(id, format, compression, suffix))

StubbytreeResolver_path(self, id, format, compression, suffix) ==
    LET fmt == IF format = None THEN self.format ELSE format
    IN Append(Parent(id_to_stubbytree(id, fmt, suffix, compression)),
              fname(id, fmt, compression, suffix))

_path(self, id, format, compression, suffix) ==
    CASE self.method = "local" -> LocalResolver_path(id, format, compression, suffix)
      [] self.method = "path" -> PathResolver_path(id)
      [] self.method = "pairtree" -> PairtreeResolver_path(id, format, compression, suffix)
      [] self.method = "stubbytree" -> StubbytreeResolver_path(self, id, format, compression, suffix)

\* pathlib's full_path.open(mode): the error it raises
PathOpenErr(tier, path, mode) ==
    IF \E d \in Ancestors(path) : d \in DOMAIN tier.files THEN "NotADirectoryError"
    ELSE IF ~(Ancestors(path) \subseteq tier.dirs) THEN "FileNotFoundError"
    ELSE IF path \in tier.dirs THEN "IsADirectoryError"
    ELSE IF path \in DOMAIN tier.files
         THEN (CASE tier.files[path] = Denied -> "PermissionError"
                 [] tier.files[path] = Dangling -> "FileNotFoundError"
                 [] OTHER -> OK)
    ELSE IF mode = "rb" THEN "FileNotFoundError" ELSE OK

\* a mkdir that makes nothing
Mkdir_nothing(tier, path) == tier

\* full_path.parent.mkdir(parents=True, exist_ok=True)
Mkdir(tier, path) == [tier EXCEPT !.dirs = @ \cup Ancestors(path)]

\* a successful open(mode='wb') leaves an empty file at the path
Truncate(tier, path) == [tier EXCEPT !.files = Put(@, path, EmptyBytes)]

FilesystemResolver_open(w, k, self, id, mode, format, compression, suffix) ==
    LET comp == IF compression = DEFAULT THEN self.compression ELSE compression
        needsId == self.method # "path"
    IN
    IF needsId /\ ~HasDot(id)
    THEN [w |-> w, err |-> "ValueError", raw |-> EmptyBytes, path |-> <<>>]
    ELSE
    LET full_path == _path(self, id, format, comp, suffix)
        tier == w.store[k]
        e1 == PathOpenErr(tier, full_path, mode)
    IN
    IF e1 = OK
    THEN IF mode = "rb"
         THEN [w |-> w, err |-> OK, raw |-> tier.files[full_path], path |-> full_path]
         ELSE [w |-> [w EXCEPT !.store[k] = Truncate(tier, full_path)],
               err |-> OK, raw |-> EmptyBytes, path |-> full_path]
    ELSE IF e1 = "FileNotFoundError" /\ mode = "wb"
    THEN LET made == Mkdir(tier, full_path)
             e2 == PathOpenErr(made, full_path, mode)
         IN IF e2 = OK
            THEN [w |-> [w EXCEPT !.store[k] = Truncate(made, full_path)],
                  err |-> OK, raw |-> EmptyBytes, path |-> full_path]
            ELSE [w |-> [w EXCEPT !.store[k] = made],
                  err |-> e2, raw |-> EmptyBytes, path |-> full_path]
    ELSE [w |-> w, err |-> e1, raw |-> EmptyBytes, path |-> full_path]

\* self.dir / Path(stubbypath).parents[0].with_suffix(".tar")
which_tarfile(self, id) ==
    LET stubbypath == id_to_stubbytree(id, self.format, None, self.compression)
    IN <<stubbypath[1], stubbypath[2] \o TAR>>

\* StubbyTarResolver._open with the mode test placed after the archive is opened
StubbyTarResolver_open_late(w, k, inst, self, id, mode, format, compression, suffix) ==
    LET fmt == IF format = None THEN self.format ELSE format
        comp == IF compression = DEFAULT THEN self.compression ELSE compression
        fin == which_tarfile(self, id)
        tars == w.store[k].tars
    IN
    IF fin \notin DOMAIN tars
    THEN [w |-> w, err |-> "FileNotFoundError", raw |-> EmptyBytes, path |-> fin]
    ELSE [w |-> [w EXCEPT !.buffers[k][inst] = Append(@, [tar |-> fin, closed |-> FALSE])],
          err |-> "NotImplementedError", raw |-> EmptyBytes, path |-> fin]

\* StubbyTarResolver._open without the except KeyError clause
StubbyTarResolver_open_keyerror(w, k, inst, self, id, mode, format, compression, suffix) ==
    LET fmt == IF format = None THEN self.format ELSE format
        comp == IF compression = DEFAULT THEN self.compression ELSE compression
        filename == fname(id, fmt, comp, suffix)
        fin == which_tarfile(self, id)
        foldername == SubSeq(fin[2], 1, Len(fin[2]) - Len(TAR))
        member == <<foldername, filename>>
        tars == w.store[k].tars
        registered == [w EXCEPT !.buffers[k][inst] = Append(@, [tar |-> fin, closed |-> FALSE])]
    IN
    IF mode # "rb"
    THEN [w |-> w, err |-> "NotImplementedError", raw |-> EmptyBytes, path |-> <<>>]
    ELSE IF fin \notin DOMAIN tars
    THEN [w |-> w, err |-> "FileNotFoundError", raw |-> EmptyBytes, path |-> fin]
    ELSE IF member \notin DOMAIN tars[fin]
    THEN [w |-> registered, err |-> "KeyError", raw |-> EmptyBytes, path |-> fin \o member]
    ELSE IF tars[fin][member] = DirMember
    THEN [w |-> registered, err |-> "NoneBuffer", raw |-> EmptyBytes, path |-> fin \o member]
    ELSE [w |-> registered, err |-> OK, raw |-> tars[fin][member], path |-> fin \o member]

StubbyTarResolver_open(w, k, inst, self, id, mode, format, compression, suffix) ==
    LET fmt == IF format = None THEN self.format ELSE format
        comp == IF compression = DEFAULT THEN self.compression ELSE compression
    IN
    IF mode # "rb"
    THEN [w |-> w, err |-> "NotImplementedError", raw |-> EmptyBytes, path |-> <<>>]
    ELSE IF ~HasDot(id)
    THEN [w |-> w, err |-> "ValueError", raw |-> EmptyBytes, path |-> <<>>]
    ELSE
    LET filename == fname(id, fmt, comp, suffix)
        fin == which_tarfile(self, id)
        foldername == SubSeq(fin[2], 1, Len(fin[2]) - Len(TAR))
        member == <<foldername, filename>>
        tars == w.store[k].tars
    IN
    IF fin \notin DOMAIN tars
    THEN [w |-> w, err |-> "FileNotFoundError", raw |-> EmptyBytes, path |-> fin]
    ELSE
    LET registered == [w EXCEPT !.buffers[k][inst] = Append(@, [tar |-> fin, closed |-> FALSE])]
    IN
    IF member \notin DOMAIN tars[fin]
    THEN [w |-> registered, err |-> "FileNotFoundError", raw |-> EmptyBytes, path |-> fin \o member]
    ELSE IF tars[fin][member] = DirMember
    THEN [w |-> registered, err |-> "NoneBuffer", raw |-> EmptyBytes, path |-> fin \o member]
    ELSE [w |-> registered, err |-> OK, raw |-> tars[fin][member], path |-> fin \o member]

\* the address substituted into self.url
HttpResolver_url(self, id, compression) ==
    CASE self.url = "stubbypath" -> id_to_stubbytree(id, self.format, None, compression)
      [] self.url = "pairtreepath" -> id_to_pairtree(id, self.format, None, compression)
      [] OTHER -> <<id>>

HttpResolver_open(w, k, self, id, mode, compression) ==
    LET comp == IF compression = DEFAULT THEN self.compression ELSE compression
    IN
    IF mode = "wb"
    THEN [w |-> w, err |-> "NotImplementedError", raw |-> EmptyBytes, path |-> <<>>]
    ELSE IF self.url # "id" /\ ~HasDot(id)
    THEN [w |-> w, err |-> "ValueError", raw |-> EmptyBytes, path |-> <<>>]
    ELSE
    LET path_or_url == HttpResolver_url(self, id, comp)
        web == w.store[k].web
    IN
    IF path_or_url \notin DOMAIN web \/ web[path_or_url] = Status404
    THEN [w |-> w, err |-> "HTTPError404", raw |-> EmptyBytes, path |-> path_or_url]
    ELSE IF web[path_or_url] = Status500
    THEN [w |-> w, err |-> "HTTPError500", raw |-> EmptyBytes, path |-> path_or_url]
    ELSE [w |-> w, err |-> OK, raw |-> web[path_or_url], path |-> path_or_url]

_open(w, k, inst, self, id, suffix, mode, format, compression) ==
    CASE self.method = "http" -> HttpResolver_open(w, k, self, id, mode, compression)
      [] self.method = "stubbytar" ->
            StubbyTarResolver_open(w, k, inst, self, id, mode, format, compression, suffix)
      [] OTHER -> FilesystemResolver_open(w, k, self, id, mode, format, compression, suffix)

\* the layer _decompress wraps around the buffer; "missing" when it falls off its last elif
_decompress(format, compression) ==
    IF compression = None \/ format = PARQUET THEN None
    ELSE IF compression = BZ2 THEN BZ2
    ELSE IF compression = GZ THEN GZ
    ELSE <<"missing">>

\* a list of modes that admits appending
Modes_append == {"rb", "wb", "ab"}

Modes == {"rb", "wb"}

\* IdResolver.open on the resolver of tier k (inst: the resolver itself or its self.super copy)
IdResolver_open(w, k, inst, self, id, suffix, format, mode, skip_compression, compression) ==
    IF mode \notin Modes
    THEN [w |-> Logged(w, Event(k, mode, <<>>, "TypeError")), err |-> "TypeError", stream |-> NoStream]
    ELSE
    LET comp == IF compression = DEFAULT THEN self.compression ELSE compression
        fmt == IF format = None THEN self.format ELSE format
        skip == skip_compression \/ fmt = PARQUET
        Returned(u, layer, err) ==
            [w |-> Logged(u.w, Event(k, mode, u.path, err)),
             err |-> err,
             stream |-> IF err = OK THEN [raw |-> u.raw, layer |-> layer, path |-> u.path]
                        ELSE NoStream]
        Wrapped(u, layer) ==
            Returned(u, layer, IF u.err = "NoneBuffer" THEN "FileNotFoundError"
                               ELSE IF u.err # OK THEN u.err
                               ELSE IF layer = <<"missing">> THEN "AssertionError"
                               ELSE OK)
    IN Wrapped(_open(w, k, inst, self, id, suffix, mode, fmt, comp),
               IF skip THEN None ELSE _decompress(fmt, comp))

\* fout.write(data) and the close at the end of the with block, on a stream opened 'wb' on tier k
StreamWrite(w, k, stream, data) ==
    [w EXCEPT !.store[k].files = Put(@, stream.path, Compress(data, stream.layer))]

\* an __exit__ that leaves active_buffers as it found it
Exit_keep(w, k, inst) == w

\* IdResolver.__exit__
Exit(w, k, inst) == [w EXCEPT !.buffers[k][inst] = <<>>]

\* the handles IdResolver.__exit__ closes, in the order of its loop
Closes(w, k, inst) ==
    [i \in 1..Len(w.buffers[k][inst]) |-> [w.buffers[k][inst][i] EXCEPT !.closed = TRUE]]

-----------------------------------------------------------------------------
(* parsers.py and caching.py: copying a volume between resolvers, and the   *)
(* fallback resolver. ch is the resolver: ch[k] holds the settings of tier  *)
(* k, whose fallback is the resolver made of the tiers after it.            *)

RECURSIVE Resolver_open(_, _, _, _, _, _, _, _, _)

Fail(w, err) == [w |-> w, err |-> err, data |-> EmptyBytes]

\* rawjson = fin.read() and json.loads(rawjson) of JsonFileHandler._parse_json, on what
\* resolver.open returned
JsonRead(r, object) ==
    IF r.err # OK THEN Fail(r.w, r.err)
    ELSE IF ReadErr(r.stream) # OK THEN Fail(r.w, ReadErr(r.stream))
    ELSE IF object /\ JsonLoads(ReadData(r.stream), "json") # OK THEN Fail(r.w, "ValueError")
    ELSE [w |-> r.w, err |-> OK, data |-> ReadData(r.stream)]

\* JsonFileHandler._parse_json on the resolver of tier k; object = FALSE returns the raw bytes
_parse_json(ch, w, k, id, object, skip_compression) ==
    JsonRead(Resolver_open(ch, w, k, id, None, None, "rb", skip_compression, DEFAULT), object)

\* ParquetFileHandler.parse: the metadata file is read if it can be; any failure is swallowed
ParquetFileHandler_parse(ch, w, k, id) ==
    LET good(r) == r.err = OK /\ ReadErr(r.stream) = OK /\ JsonLoads(ReadData(r.stream), "meta") = OK
        Read(r) ==
            [w |-> r.w, err |-> OK,
             data |-> IF good(r) THEN ReadData(r.stream) ELSE Bytes("meta", "default", <<>>)]
    IN Read(Resolver_open(ch, w, k, id, META, JSON, "rb", FALSE, None))

\* Volume(id, id_resolver = resolver): the handler is chosen by the resolver's format
VolumeParser(self) == IF self.format = PARQUET THEN "parquet" ELSE "json"

\* Volume(id, id_resolver = ch from tier k on), mode 'rb': the handler parses on construction
Volume(ch, w, k, id) ==
    IF VolumeParser(ch[k]) = "json"
    THEN _parse_json(ch, w, k, id, TRUE, FALSE)
    ELSE ParquetFileHandler_parse(ch, w, k, id)

\* with self.id_resolver as context: with context.open(..., mode = 'wb') as fout: fout.write(data)
WriteFile(ch, w, k, id, suffix, format, skip_compression, compression, data) ==
    LET Write(o) ==
            IF o.err # OK THEN Fail(Exit(o.w, k, "super"), o.err)
            ELSE [w |-> Exit(StreamWrite(o.w, k, o.stream, data), k, "super"), err |-> OK,
                  data |-> data]
    IN Write(IdResolver_open(w, k, "super", ch[k], id, suffix, format, "wb", skip_compression,
                             compression))

\* JsonFileHandler.write with skip_compression left out of the call that opens the output
JsonFileHandler_write_recompress(ch, w, dst, src, id) ==
    IF VolumeParser(ch[src]) # "json" THEN Fail(w, "TypeError")
    ELSE
    LET skip_compression == ch[src].compression = ch[dst].compression /\ ch[dst].compression # DEFAULT
        Write(json_bytestring) ==
            IF json_bytestring.err # OK THEN json_bytestring
            ELSE WriteFile(ch, json_bytestring.w, dst, id, None, JSON, FALSE,
                           ch[dst].compression, json_bytestring.data)
    IN Write(_parse_json(ch, w, src, id, FALSE, skip_compression))

\* JsonFileHandler.write(outside_volume) on the plain resolver of tier dst; the outside volume
\* was read from the resolver that starts at tier src
JsonFileHandler_write(ch, w, dst, src, id) ==
    IF VolumeParser(ch[src]) # "json" THEN Fail(w, "TypeError")
    ELSE
    LET skip_compression == ch[src].compression = ch[dst].compression /\ ch[dst].compression # DEFAULT
        Write(json_bytestring) ==
            IF json_bytestring.err # OK THEN json_bytestring
            ELSE WriteFile(ch, json_bytestring.w, dst, id, None, JSON, skip_compression,
                           ch[dst].compression, json_bytestring.data)
    IN Write(_parse_json(ch, w, src, id, FALSE, skip_compression))

\* volume.tokenlist() of the outside volume: parsed pages of a json volume, the tokens
\* file of a parquet volume (ParquetFileHandler._make_tokencount_df)
Tokenlist(ch, w, src, id, volume) ==
    IF VolumeParser(ch[src]) = "json"
    THEN [w |-> w, err |-> OK, data |-> Bytes("tokens", volume.data[2], <<>>)]
    ELSE LET Read(r) ==
                 IF r.err \in IOErrors THEN Fail(r.w, "MissingDataError")
                 ELSE IF r.err # OK THEN Fail(r.w, r.err)
                 ELSE IF ReadErr(r.stream) # OK \/ ReadData(r.stream)[1] # "tokens"
                      THEN Fail(r.w, "ValueError")
                 ELSE [w |-> r.w, err |-> OK, data |-> ReadData(r.stream)]
         IN Read(Resolver_open(ch, w, src, id, TOKENS, PARQUET, "rb", FALSE, DEFAULT))

\* ParquetFileHandler.write(volume), files = ['meta', 'tokens']
ParquetFileHandler_write(ch, w, dst, src, id, volume) ==
    LET WriteTokens(feats) ==
            IF feats.err # OK THEN feats
            ELSE WriteFile(ch, feats.w, dst, id, TOKENS, None, FALSE, DEFAULT, feats.data)
        WriteMeta(meta) ==
            IF meta.err # OK THEN meta
            ELSE WriteTokens(Tokenlist(ch, meta.w, src, id, volume))
    IN WriteMeta(WriteFile(ch, w, dst, id, META, JSON, FALSE, None, volume.data))

\* copy_between_resolvers reading from the innermost resolver instead of the fallback given
copy_between_resolvers_last(ch, w, id, src, dst) ==
    LET from == Len(ch)
        Write(input) ==
            IF input.err # OK THEN input
            ELSE IF VolumeParser(ch[dst]) = "json"
                 THEN JsonFileHandler_write(ch, input.w, dst, from, id)
                 ELSE ParquetFileHandler_write(ch, input.w, dst, from, id,
                          IF VolumeParser(ch[from]) = "json"
                          THEN [input EXCEPT !.data = Bytes("meta", input.data[2], <<>>)]
                          ELSE input)
    IN Write(Volume(ch, w, from, id))

\* copy_between_resolvers(id, resolver1 = ch from tier src on, resolver2 = plain tier dst)
copy_between_resolvers(ch, w, id, src, dst) ==
    LET Write(input) ==
            IF input.err # OK THEN input
            ELSE IF VolumeParser(ch[dst]) = "json"
                 THEN JsonFileHandler_write(ch, input.w, dst, src, id)
                 ELSE ParquetFileHandler_write(ch, input.w, dst, src, id,
                          IF VolumeParser(ch[src]) = "json"
                          THEN [input EXCEPT !.data = Bytes("meta", input.data[2], <<>>)]
                          ELSE input)
    IN Write(Volume(ch, w, src, id))

\* FallbackResolver.open that refreshes the cache from the fallback before every open
FallbackResolver_open_refresh(ch, w, k, id, suffix, format, mode, skip_compression, compression) ==
    LET Reopen(copied) ==
            IF copied.err # OK
            THEN [w |-> copied.w, err |-> copied.err, stream |-> NoStream]
            ELSE IdResolver_open(copied.w, k, "self", ch[k], id, suffix, format, mode,
                                 skip_compression, compression)
    IN Reopen(copy_between_resolvers(ch, w, id, k + 1, k))

\* FallbackResolver.open with a bare except: every error of the primary sends it to the fallback
FallbackResolver_open_catchall(ch, w, k, id, suffix, format, mode, skip_compression, compression) ==
    LET Reopen(copied) ==
            IF copied.err # OK
            THEN [w |-> copied.w, err |-> copied.err, stream |-> NoStream]
            ELSE IdResolver_open(copied.w, k, "self", ch[k], id, suffix, format, mode,
                                 skip_compression, compression)
        Except(fout) ==
            IF fout.err = OK THEN fout
            ELSE Reopen(copy_between_resolvers(ch, fout.w, id, k + 1, k))
    IN Except(IdResolver_open(w, k, "self", ch[k], id, suffix, format, mode, skip_compression,
                              compression))

\* FallbackResolver.open on tier k < Len(ch)
FallbackResolver_open(ch, w, k, id, suffix, format, mode, skip_compression, compression) ==
    LET Uncached(input) ==
            [w |-> input.w, stream |-> NoStream,
             err |-> IF input.err # OK THEN input.err ELSE "AttributeError"]
        Reopen(copied) ==
            IF copied.err # OK
            THEN [w |-> copied.w, err |-> copied.err, stream |-> NoStream]
            ELSE IdResolver_open(copied.w, k, "self", ch[k], id, suffix, format, mode,
                                 skip_compression, compression)
        Except(fout) ==
            IF fout.err \notin NotFound THEN fout
            ELSE IF ~ch[k].cache THEN Uncached(Volume(ch, fout.w, k + 1, id))
            ELSE Reopen(copy_between_resolvers(ch, fout.w, id, k + 1, k))
    IN Except(IdResolver_open(w, k, "self", ch[k], id, suffix, format, mode, skip_compression,
                              compression))

\* open on the resolver that starts at tier k: a fallback resolver unless k is the last tier
Resolver_open(ch, w, k, id, suffix, format, mode, skip_compression, compression) ==
    IF k < Len(ch)
    THEN FallbackResolver_open(ch, w, k, id, suffix, format, mode, skip_compression, compression)
    ELSE IdResolver_open(w, k, "self", ch[k], id, suffix, format, mode, skip_compression, compression)

-----------------------------------------------------------------------------
(* Construction: resolvers.chain_resolver and caching.make_fallback_resolver *)

Front(s) == SubSeq(s, 1, Len(s) - 1)

\* chain_resolver's loop: the last dict becomes the innermost resolver, every dict popped
\* after it wraps the resolver built so far as its fallback
RECURSIVE WrapLayers(_, _)
WrapLayers(dicts, current_resolver) ==
    IF Len(dicts) = 0 THEN current_resolver
    ELSE WrapLayers(Front(dicts), <<dicts[Len(dicts)]>> \o current_resolver)

chain_resolver(dicts) == WrapLayers(Front(dicts), <<dicts[Len(dicts)]>>)

\* a copy that is the object copied
deepcopy_alias(object) == object

\* copy.deepcopy(dicts): another object of the same value
deepcopy(object) == [ref |-> "copy", value |-> object.value]

\* dicts.pop() until len(dicts) is 0
RECURSIVE PopAll(_)
PopAll(dicts) == IF Len(dicts) = 0 THEN dicts ELSE PopAll(Front(dicts))

\* the caller's list when chain_resolver returns: the function rebinds dicts to a deep copy
\* and pops every dict from the list that dicts then names
CallerDicts(dicts) ==
    LET caller == [ref |-> "caller", value |-> dicts]
        Popped(local) ==
            IF local.ref = caller.ref THEN PopAll(caller.value) ELSE caller.value
    IN Popped(deepcopy(caller))

\* FallbackResolver.__init__: the exception it raises for the kind of fallback given to
\* make_fallback_resolver
FallbackResolver_init(fallback) ==
    CASE fallback = "nickname" -> OK                \* fallback in resolver_nicknames
      [] fallback = "instance" -> OK                \* isinstance(fallback, IdResolver)
      [] fallback = "class" -> OK                   \* issubclass(fallback, IdResolver)
      [] fallback = "None" -> "TypeError"           \* issubclass(None, ...) raises
      [] OTHER -> "TypeError"

-----------------------------------------------------------------------------
(* The bounded inputs *)

MaxOps == 2          \* open calls per behaviour
MaxTiers == 3        \* tiers of the longest chain

IdA == <<"a", ".", "1", ":", "/", "2", ".", "3">>
Ids == {IdA}

Cfg(method, format, compression) ==
    [method |-> method, format |-> format, compression |-> compression,
     url |-> "stubbypath", cache |-> TRUE]

LocalBz2 == Cfg("local", JSON, BZ2)
LocalGz == Cfg("local", JSON, GZ)
LocalParquet == Cfg("local", PARQUET, SNAPPY)
LocalSnappy == Cfg("local", JSON, SNAPPY)

\* the settings a tier may have
TierConfigs ==
    {LocalBz2, LocalGz, LocalParquet, LocalSnappy,
     Cfg("pairtree", JSON, GZ), Cfg("stubbytree", JSON, BZ2), Cfg("path", JSON, None),
     Cfg("stubbytar", JSON, BZ2), Cfg("http", JSON, BZ2)}

\* the settings of the tiers of chains longer than two
DeepConfigs == {LocalBz2, LocalGz}

SeqsOver(S, n) == UNION {[1..m -> S] : m \in 1..n}

\* the chains built; a path resolver ignores dir, so two of them would share their storage
Dicts ==
    {d \in SeqsOver(TierConfigs, 2) : Cardinality({k \in 1..Len(d) : d[k].method = "path"}) <= 1}
    \cup {d \in SeqsOver(DeepConfigs, MaxTiers) : Len(d) > 2}

Inputs ==
    [api : {"chain_resolver"}, dicts : Dicts, fallback : {"instance"}]
    \cup [api : {"make_fallback_resolver"}, dicts : {<<LocalBz2, LocalGz>>},
          fallback : {"nickname", "instance", "class", "None"}]

DefaultArgs == [suffix |-> None, format |-> None, compression |-> DEFAULT]
MetaArgs == [suffix |-> META, format |-> JSON, compression |-> None]
GzArgs == [suffix |-> None, format |-> None, compression |-> GZ]
OpenArgs == {DefaultArgs, MetaArgs, GzArgs}

\* the calls made: every argument set for reading, two of them for writing, and a mode
\* that is neither
Calls == (OpenArgs \X {"rb"}) \cup ({DefaultArgs, GzArgs} \X {"wb"}) \cup {<<DefaultArgs, "ab">>}

\* the bytes a caller writes to a stream opened 'wb'
Payload == Bytes("json", "Y", <<>>)

\* the compression layers of a well-formed file of a tier
GoodEnc(self) == IF self.compression \in {BZ2, GZ} /\ self.format # PARQUET
                 THEN <<self.compression>> ELSE <<>>

WithFile(tier, path, bytes) ==
    [tier EXCEPT !.files = Put(@, path, bytes), !.dirs = @ \cup Ancestors(path)]

\* what may lie behind a tier before the resolver is constructed: nothing, the volume IdA
\* stored as the tier's settings store it, or something in its place
Seeds(self) ==
    CASE self.method = "http" ->
            {EmptyTier,
             [EmptyTier EXCEPT !.web = Put(@, HttpResolver_url(self, IdA, self.compression),
                                           Bytes("json", "X", GoodEnc(self)))],
             [EmptyTier EXCEPT !.web = Put(@, HttpResolver_url(self, IdA, self.compression), Status500)]}
      [] self.method = "stubbytar" ->
            LET fin == which_tarfile(self, IdA)
                member == <<SubSeq(fin[2], 1, Len(fin[2]) - Len(TAR)),
                            fname(IdA, self.format, self.compression, None)>>
            IN {EmptyTier,
                [EmptyTier EXCEPT !.tars = Put(@, fin, EmptyMap)],
                [EmptyTier EXCEPT !.tars = Put(@, fin, Put(EmptyMap, member, DirMember))],
                [EmptyTier EXCEPT !.tars = Put(@, fin, Put(EmptyMap, member,
                                                          Bytes("json", "X", GoodEnc(self))))]}
      [] self.format = PARQUET ->
            {EmptyTier,
             WithFile(WithFile(EmptyTier, _path(self, IdA, JSON, None, META), Bytes("meta", "X", <<>>)),
                      _path(self, IdA, PARQUET, self.compression, TOKENS), Bytes("tokens", "X", <<>>))}
      [] OTHER ->
            LET path == _path(self, IdA, self.format, self.compression, None)
            IN {EmptyTier,
                WithFile(EmptyTier, path, Bytes("json", "X", GoodEnc(self))),
                WithFile(EmptyTier, path, Denied),
                WithFile(EmptyTier, path, Dangling)}

\* one seed per tier; the tiers of a chain longer than two hold no dangling link
RECURSIVE SeedStores(_, _)
SeedStores(dicts, n) ==
    IF n = 0 THEN {<<>>}
    ELSE {Append(s, t) : s \in SeedStores(dicts, n - 1),
                         t \in {x \in Seeds(dicts[n]) :
                                  Len(dicts) > 2 => \A p \in DOMAIN x.files : x.files[p] # Dangling}}

NoBuffers == [self |-> <<>>, super |-> <<>>]

\* no function of the names has been called
NoName == [fn |-> "none"]

\* the caller is in no with block and has left none
NoBlock == [pc |-> "outside", exc |-> OK, raised |-> OK, acquired |-> <<>>, closed |-> <<>>]

NoCall ==
    [op |-> "none", id |-> None, args |-> DefaultArgs, mode |-> "rb", err |-> OK,
     rerr |-> OK, data |-> EmptyBytes, log |-> <<>>, pre |-> <<>>, prebuf |-> <<>>, hit |-> FALSE]

-----------------------------------------------------------------------------
(* The state machine *)

Init ==
    /\ given \in Inputs
    /\ store \in SeedStores(given.dicts, Len(given.dicts))
    /\ chain = <<>>
    /\ buffers = [k \in 1..Len(given.dicts) |-> NoBuffers]
    /\ last = NoCall
    /\ done = {}
    /\ ops = 0
    /\ archives = <<>>
    /\ writers = <<>>
    /\ sha1 = <<>>
    /\ digits = 0
    /\ subject = None
    /\ applied = NoName
    /\ block = NoBlock
    /\ procs = <<>>

\* resolvers.chain_resolver(dicts)
ChainResolver ==
    /\ last.op = "none"
    /\ given.api = "chain_resolver"
    /\ chain' = chain_resolver(given.dicts)
    /\ given' = [given EXCEPT !.dicts = CallerDicts(given.dicts)]
    /\ last' = [NoCall EXCEPT !.op = "chain_resolver"]
    /\ UNCHANGED <<store, buffers, done, ops, ziptree_vars, names_vars, scope_vars, race_vars>>

\* make_fallback_resolver(preferred, fallback)(**preferred_args)
MakeFallbackResolver ==
    /\ last.op = "none"
    /\ given.api = "make_fallback_resolver"
    /\ LET err == FallbackResolver_init(given.fallback)
       IN /\ chain' = IF err = OK THEN given.dicts ELSE <<>>
          /\ last' = [NoCall EXCEPT !.op = "make_fallback_resolver", !.err = err]
    /\ UNCHANGED <<store, buffers, done, ops, given, ziptree_vars, names_vars, scope_vars, race_vars>>

Materialized(log) == \E i \in 1..Len(log) : log[i].tier = 1 /\ log[i].mode = "wb" /\ log[i].err = OK

\* resolver.open(id, mode = mode, **args) on the constructed resolver, followed by what the
\* caller does with the stream: read it to the end ('rb'), or write Payload and close it ('wb')
Open(id, args, mode) ==
    /\ chain # <<>>
    /\ ops < MaxOps
    /\ LET w0 == [store |-> store, buffers |-> buffers, log |-> <<>>]
           Used(r, w1) ==
               /\ store' = w1.store
               /\ buffers' = w1.buffers
               /\ last' = [op |-> "open", id |-> id, args |-> args, mode |-> mode, err |-> r.err,
                           rerr |-> IF r.err = OK /\ mode = "rb" THEN ReadErr(r.stream) ELSE OK,
                           data |-> IF r.err = OK /\ mode = "rb" /\ ReadErr(r.stream) = OK
                                    THEN ReadData(r.stream) ELSE EmptyBytes,
                           log |-> w1.log, pre |-> store, prebuf |-> buffers,
                           hit |-> <<id, args>> \in done]
               /\ done' = IF r.err = OK /\ mode = "rb" /\ Materialized(w1.log)
                          THEN done \cup {<<id, args>>} ELSE done
           Returned(r) ==
               Used(r, IF r.err = OK /\ mode = "wb" THEN StreamWrite(r.w, 1, r.stream, Payload)
                       ELSE r.w)
       IN Returned(Resolver_open(chain, w0, 1, id, args.suffix, args.format, mode, FALSE,
                                 args.compression))
    /\ ops' = ops + 1
    /\ UNCHANGED <<chain, given, ziptree_vars, names_vars, scope_vars, race_vars>>

Next ==
    \/ ChainResolver
    \/ MakeFallbackResolver
    \/ \E id \in Ids, call \in Calls : Open(id, call[1], call[2])

Spec == Init /\ [][Next]_vars

-----------------------------------------------------------------------------
(* The Ziptree backend. resolvers.ZiptreeResolver is named by the tests and  *)
(* is not part of resolvers.py; it is modelled from its description: the     *)
(* archive is named by the first characters of sha1(id); a write opens the   *)
(* archive in append mode, raises a conflict if fname is among its members   *)
(* and adds the member otherwise; no backend locks anything, so the steps of *)
(* two writers interleave.                                                   *)

MaxDigits == 2       \* characters of a digest

IdB == <<"b", ".", "7">>
ZipIds == {IdA, IdB}
Writers == {1, 2}

HexDigits == {"0", "f"}
Digests == [1..MaxDigits -> HexDigits]

\* the archive of an id: sha1(id).hexdigest()[:digits]
which_zipfile(id) == SubSeq(sha1[id], 1, digits)

ZipNames == UNION {[1..n -> HexDigits] : n \in 1..MaxDigits}

ZiptreeFname(id) == fname(id, JSON, BZ2, None)

\* the names of the members of an archive
namelist(zipfile) == {archives[zipfile][i].name : i \in 1..Len(archives[zipfile])}

Original == Bytes("json", "X", <<BZ2>>)
Written(w) == Bytes("json", IF w = 1 THEN "W1" ELSE "W2", <<BZ2>>)

Idle == [pc |-> "idle", id |-> None, names |-> {}, err |-> OK]

InitZiptree ==
    /\ sha1 \in [ZipIds -> Digests]
    /\ digits \in 1..MaxDigits
    /\ \E held \in SUBSET {IdA} :
          archives = [z \in ZipNames |->
                        IF \E id \in held : which_zipfile(id) = z
                        THEN <<[name |-> ZiptreeFname(IdA), data |-> Original]>>
                        ELSE <<>>]
    /\ writers = [w \in Writers |-> Idle]
    /\ chain = <<>>
    /\ store = <<>>
    /\ buffers = <<>>
    /\ last = NoCall
    /\ done = {}
    /\ ops = 0
    /\ given = [api |-> "ziptree", dicts |-> <<>>, fallback |-> "None"]
    /\ subject = None
    /\ applied = NoName
    /\ block = NoBlock
    /\ procs = <<>>

\* open(id, mode = 'wb'), first step: the archive is opened in append mode and its
\* directory of members is read
ZiptreeOpenArchive(w, id) ==
    /\ writers[w].pc = "idle"
    /\ writers' = [writers EXCEPT ![w] = [pc |-> "opened", id |-> id,
                                          names |-> namelist(which_zipfile(id)), err |-> OK]]
    /\ UNCHANGED <<archives, sha1, digits, resolver_vars, names_vars, scope_vars, race_vars>>

\* second step: a member of that name among those read raises the conflict
ZiptreeCheckMember(w) ==
    /\ writers[w].pc = "opened"
    /\ writers' = [writers EXCEPT ![w] =
                     IF ZiptreeFname(@.id) \in @.names
                     THEN [@ EXCEPT !.pc = "done", !.err = "Conflict"]
                     ELSE [@ EXCEPT !.pc = "adding"]]
    /\ UNCHANGED <<archives, sha1, digits, resolver_vars, names_vars, scope_vars, race_vars>>

\* last step: the member is added when the stream is written and closed
ZiptreeAddMember(w) ==
    /\ writers[w].pc = "adding"
    /\ archives' = [archives EXCEPT ![which_zipfile(writers[w].id)] =
                      Append(@, [name |-> ZiptreeFname(writers[w].id), data |-> Written(w)])]
    /\ writers' = [writers EXCEPT ![w].pc = "done"]
    /\ UNCHANGED <<sha1, digits, resolver_vars, names_vars, scope_vars, race_vars>>

NextZiptree ==
    \/ \E w \in Writers, id \in ZipIds : ZiptreeOpenArchive(w, id)
    \/ \E w \in Writers : ZiptreeCheckMember(w)
    \/ \E w \in Writers : ZiptreeAddMember(w)

SpecZiptree == InitZiptree /\ [][NextZiptree]_vars

-----------------------------------------------------------------------------
(* The names: the functions of utils.py and IdResolver.fname applied to an   *)
(* identifier, and the address a resolver of each backend opens for it.      *)

MaxVol == 4          \* characters of the volume part of an identifier

VolChars == {":", "/", ".", "1"}

\* volume parts that read like a piece of a file name, and one that holds an escape target
VolWords == {META, GZ, <<"1", "+", "2">>}

Volumes == UNION {[1..n -> VolChars] : n \in 1..MaxVol} \cup VolWords

HtIds == {<<"a", ".">> \o v : v \in Volumes}

Suffixes == {None, META, TOKENS, CHARS, SECTION}
Formats == {JSON, PARQUET}
Compressions == {None, GZ, BZ2, SNAPPY}

\* the resolvers an identifier is opened through
HttpById == [Cfg("http", JSON, BZ2) EXCEPT !.url = "id"]
HttpByPairtree == [Cfg("http", JSON, BZ2) EXCEPT !.url = "pairtreepath"]
NameConfigs ==
    {LocalGz, LocalParquet, Cfg("pairtree", JSON, GZ), Cfg("stubbytree", JSON, BZ2),
     Cfg("path", JSON, None), Cfg("stubbytar", JSON, BZ2), Cfg("http", JSON, BZ2), HttpById,
     HttpByPairtree}

ParquetGzArgs == [suffix |-> None, format |-> PARQUET, compression |-> GZ]
ParquetArgs == [suffix |-> None, format |-> PARQUET, compression |-> None]
SnappyArgs == [suffix |-> None, format |-> JSON, compression |-> SNAPPY]
NameArgs == {DefaultArgs, MetaArgs, GzArgs, ParquetGzArgs, ParquetArgs, SnappyArgs}

\* the opens made: by the identifier as given, for reading with and without
\* skip_compression and for writing; by the identifier already encoded, for reading
NameCalls ==
    [encoded : {FALSE}, args : NameArgs, mode : {"rb"}, skip_compression : BOOLEAN]
    \cup [encoded : {FALSE}, args : NameArgs, mode : {"wb"}, skip_compression : {FALSE}]
    \cup [encoded : {TRUE}, args : {DefaultArgs}, mode : {"rb"}, skip_compression : {FALSE}]

World(tier) == [store |-> <<tier>>, buffers |-> <<NoBuffers>>, log |-> <<>>]

\* a tier that holds nothing; behind a StubbyTar resolver the archive of the id, without members
Bare(self, id) ==
    IF self.method = "stubbytar"
    THEN [EmptyTier EXCEPT !.tars = Put(@, which_tarfile(self, id), EmptyMap)]
    ELSE EmptyTier

\* the address the resolver opens for the call: what it tries to read on the bare tier
Located(self, id, args) ==
    IdResolver_open(World(Bare(self, id)), 1, "self", self, id, args.suffix, args.format,
                    "rb", FALSE, args.compression).w.log[1].path

\* a tier that holds the bytes at an address
Holding(self, at, bytes) ==
    CASE self.method = "http" -> [EmptyTier EXCEPT !.web = Put(@, at, bytes)]
      [] self.method = "stubbytar" ->
            [EmptyTier EXCEPT !.tars = Put(@, SubSeq(at, 1, 2),
                                           Put(EmptyMap, SubSeq(at, 3, 4), bytes))]
      [] OTHER -> WithFile(EmptyTier, at, bytes)

\* resolver.open(id, mode = mode, skip_compression = ..., **args) on a resolver of the
\* settings self: a read finds the volume wherever it looks, a write finds a bare tier
Opened(self, id, args, mode, skip_compression) ==
    LET Result(r, after) ==
            [fn |-> "open", self |-> self, id |-> id, args |-> args, mode |-> mode,
             skip_compression |-> skip_compression, err |-> r.err, path |-> r.w.log[1].path,
             layer |-> r.stream.layer, raw |-> r.stream.raw,
             files |-> after.store[1].files, dirs |-> after.store[1].dirs]
        Used(r) ==
            Result(r, IF r.err = OK /\ mode = "wb" THEN StreamWrite(r.w, 1, r.stream, Payload)
                      ELSE r.w)
    IN Used(IdResolver_open(World(IF mode = "rb"
                                  THEN Holding(self, Located(self, id, args),
                                               Bytes("json", "X", <<>>))
                                  ELSE Bare(self, id)),
                            1, "self", self, id, args.suffix, args.format, mode,
                            skip_compression, args.compression))

InitNames ==
    /\ subject \in HtIds
    /\ applied = NoName
    /\ chain = <<>>
    /\ store = <<>>
    /\ buffers = <<>>
    /\ last = NoCall
    /\ done = {}
    /\ ops = 0
    /\ given = [api |-> "names", dicts |-> <<>>, fallback |-> "None"]
    /\ archives = <<>>
    /\ writers = <<>>
    /\ sha1 = <<>>
    /\ digits = 0
    /\ block = NoBlock
    /\ procs = <<>>

\* _id_encode(volid) of the volume part of the identifier
IdEncode ==
    /\ applied.fn = "none"
    /\ applied' = [fn |-> "_id_encode", arg |-> volid(subject), out |-> _id_encode(volid(subject))]
    /\ UNCHANGED <<subject, resolver_vars, ziptree_vars, scope_vars, race_vars>>

\* _id_decode of what _id_encode returned
IdDecode ==
    /\ applied.fn = "_id_encode"
    /\ applied' = [fn |-> "_id_decode", arg |-> applied.out, out |-> _id_decode(applied.out),
                   via |-> applied]
    /\ UNCHANGED <<subject, resolver_vars, ziptree_vars, scope_vars, race_vars>>

\* clean_htid of the identifier, and clean_htid of what clean_htid returned
CleanHtid ==
    /\ \/ /\ applied.fn = "none"
          /\ applied' = [fn |-> "clean_htid", arg |-> subject, out |-> clean_htid(subject),
                         via |-> applied]
       \/ /\ applied.fn = "clean_htid"
          /\ applied.via.fn = "none"
          /\ applied' = [fn |-> "clean_htid", arg |-> applied.out, out |-> clean_htid(applied.out),
                         via |-> applied]
    /\ UNCHANGED <<subject, resolver_vars, ziptree_vars, scope_vars, race_vars>>

\* resolver.fname(id, format, compression, suffix); a resolver of any settings returns the same
Fname(self, format, compression, suffix) ==
    /\ applied.fn = "none"
    /\ applied' = [fn |-> "fname", self |-> self, format |-> format, compression |-> compression,
                   suffix |-> suffix, out |-> fname(subject, format, compression, suffix)]
    /\ UNCHANGED <<subject, resolver_vars, ziptree_vars, scope_vars, race_vars>>

\* extract_htid of a file name: of what fname or clean_htid returned for the identifier
ExtractHtid ==
    /\ \/ applied.fn = "fname"
       \/ applied.fn = "clean_htid" /\ applied.via.fn = "none"
    /\ applied' = [fn |-> "extract_htid", arg |-> applied.out, out |-> extract_htid(applied.out),
                   via |-> applied]
    /\ UNCHANGED <<subject, resolver_vars, ziptree_vars, scope_vars, race_vars>>

IdToPairtree(format, compression) ==
    /\ applied.fn = "none"
    /\ applied' = [fn |-> "id_to_pairtree", format |-> format, compression |-> compression,
                   out |-> id_to_pairtree(subject, format, None, compression)]
    /\ UNCHANGED <<subject, resolver_vars, ziptree_vars, scope_vars, race_vars>>

IdToStubbytree(format, compression) ==
    /\ applied.fn = "none"
    /\ applied' = [fn |-> "id_to_stubbytree", format |-> format, compression |-> compression,
                   out |-> id_to_stubbytree(subject, format, None, compression)]
    /\ UNCHANGED <<subject, resolver_vars, ziptree_vars, scope_vars, race_vars>>

\* an open of the identifier, or of its encoded form, through a resolver of one backend
OpenByName(self, c) ==
    /\ applied.fn = "none"
    /\ applied' = Opened(self, IF c.encoded THEN clean_htid(subject) ELSE subject, c.args,
                         c.mode, c.skip_compression)
    /\ UNCHANGED <<subject, resolver_vars, ziptree_vars, scope_vars, race_vars>>

\* after a write: a resolver made anew with the same settings reads the same id with the
\* same arguments from what the write left behind
ReadBack ==
    /\ applied.fn = "open"
    /\ applied.mode = "wb"
    /\ applied.err = OK
    /\ LET Read(r) ==
               [fn |-> "read_back", via |-> applied, err |-> r.err,
                rerr |-> IF r.err = OK THEN ReadErr(r.stream) ELSE OK,
                data |-> IF r.err = OK /\ ReadErr(r.stream) = OK THEN ReadData(r.stream)
                         ELSE EmptyBytes]
       IN applied' = Read(IdResolver_open(
                              World([EmptyTier EXCEPT !.files = applied.files,
                                                      !.dirs = applied.dirs]),
                              1, "self", applied.self, applied.id, applied.args.suffix,
                              applied.args.format, "rb", applied.skip_compression,
                              applied.args.compression))
    /\ UNCHANGED <<subject, resolver_vars, ziptree_vars, scope_vars, race_vars>>

NextNames ==
    \/ IdEncode
    \/ IdDecode
    \/ CleanHtid
    \/ \E self \in {LocalGz, LocalParquet}, format \in Formats \cup {None},
          compression \in Compressions, suffix \in Suffixes :
             Fname(self, format, compression, suffix)
    \/ ExtractHtid
    \/ \E format \in {None, JSON}, compression \in {None, GZ} : IdToPairtree(format, compression)
    \/ \E format \in {None, JSON}, compression \in {None, GZ} : IdToStubbytree(format, compression)
    \/ \E self \in NameConfigs, c \in NameCalls : OpenByName(self, c)
    \/ ReadBack

SpecNames == InitNames /\ [][NextNames]_vars

-----------------------------------------------------------------------------
(* The scoped block: with resolver: ... on a StubbyTar resolver, whose opens  *)
(* register the archive they open in active_buffers.                          *)

MaxOpens == 3        \* open calls per behaviour

ScopeTar == Cfg("stubbytar", JSON, BZ2)
ScopeIds == {IdA, IdB}

\* the archive of an id: absent, without the member of the id, or holding the volume
TarSeeds(id) ==
    LET fin == which_tarfile(ScopeTar, id)
        member == <<SubSeq(fin[2], 1, Len(fin[2]) - Len(TAR)),
                    fname(id, ScopeTar.format, ScopeTar.compression, None)>>
    IN {EmptyMap,
        Put(EmptyMap, fin, EmptyMap),
        Put(EmptyMap, fin, Put(EmptyMap, member, Bytes("json", "X", GoodEnc(ScopeTar))))}

InitScope ==
    /\ chain = <<ScopeTar>>
    /\ \E a \in TarSeeds(IdA), b \in TarSeeds(IdB) :
          store = <<[EmptyTier EXCEPT !.tars = [fin \in DOMAIN a \cup DOMAIN b |->
                                                  IF fin \in DOMAIN a THEN a[fin] ELSE b[fin]]]>>
    /\ buffers = <<NoBuffers>>
    /\ block = NoBlock
    /\ last = NoCall
    /\ done = {}
    /\ ops = 0
    /\ given = [api |-> "scope", dicts |-> <<>>, fallback |-> "None"]
    /\ archives = <<>>
    /\ writers = <<>>
    /\ sha1 = <<>>
    /\ digits = 0
    /\ subject = None
    /\ applied = NoName
    /\ procs = <<>>

\* with resolver: the block is entered
ScopeEnter ==
    /\ block.pc = "outside"
    /\ block' = [block EXCEPT !.pc = "inside"]
    /\ UNCHANGED <<resolver_vars, ziptree_vars, names_vars, race_vars>>

\* resolver.open(id) in the block or before it; the consumer reads the stream and closes it.
\* An exception raised in the block leaves the block
ScopeOpen(id) ==
    /\ block.pc \in {"outside", "inside"}
    /\ block.exc = OK
    /\ ops < MaxOpens
    /\ LET Used(r) ==
               /\ store' = r.w.store
               /\ buffers' = r.w.buffers
               /\ last' = [NoCall EXCEPT !.op = "open", !.id = id, !.err = r.err, !.log = r.w.log,
                                        !.pre = store, !.prebuf = buffers]
               /\ block' = IF block.pc = "inside"
                           THEN [block EXCEPT
                                    !.exc = r.err,
                                    !.acquired = @ \o SubSeq(r.w.buffers[1].self,
                                                             Len(buffers[1].self) + 1,
                                                             Len(r.w.buffers[1].self))]
                           ELSE block
       IN Used(IdResolver_open([store |-> store, buffers |-> buffers, log |-> <<>>], 1, "self",
                               chain[1], id, None, None, "rb", FALSE, DEFAULT))
    /\ ops' = ops + 1
    /\ UNCHANGED <<chain, done, given, ziptree_vars, names_vars, race_vars>>

\* the body of the block raises an exception of its own
ScopeRaise ==
    /\ block.pc = "inside"
    /\ block.exc = OK
    /\ block' = [block EXCEPT !.exc = "RuntimeError"]
    /\ UNCHANGED <<resolver_vars, ziptree_vars, names_vars, race_vars>>

\* the block is left, by its end, a return or the exception raised in it: __exit__ closes the
\* buffers and returns None, so the exception goes on to the caller
ScopeExit ==
    /\ block.pc = "inside"
    /\ LET w0 == [store |-> store, buffers |-> buffers, log |-> <<>>]
       IN /\ buffers' = Exit(w0, 1, "self").buffers
          /\ block' = [block EXCEPT !.pc = "left", !.closed = Closes(w0, 1, "self"),
                                    !.raised = block.exc]
    /\ UNCHANGED <<chain, store, last, done, ops, given, ziptree_vars, names_vars, race_vars>>

NextScope ==
    \/ ScopeEnter
    \/ \E id \in ScopeIds : ScopeOpen(id)
    \/ ScopeRaise
    \/ ScopeExit

SpecScope == InitScope /\ [][NextScope]_vars

-----------------------------------------------------------------------------
(* Concurrent callers. Two callers, each with a resolver of its own over the  *)
(* same directories, make one call each: an open for reading through a        *)
(* fallback resolver, or an open for writing on the primary's backend. No     *)
(* backend locks anything, so the file system calls of the two interleave:    *)
(* an open, a mkdir, a read and the write and close of a stream are each one  *)
(* step.                                                                      *)

Callers == {1, 2}

\* the primaries: directory backends that store json
RacePrimaries == {Cfg("pairtree", JSON, GZ), Cfg("stubbytree", JSON, BZ2), Cfg("path", JSON, None),
                  LocalGz}

\* the calls a caller may make
RaceCalls == {<<"read", DefaultArgs>>, <<"write", DefaultArgs>>, <<"write", SnappyArgs>>}

\* a caller that has not begun its call
Starting(call) ==
    [call |-> call[1], args |-> call[2],
     pc |-> IF call[1] = "read" THEN "start" ELSE "open_w",
     wargs |-> call[2], skip |-> FALSE, data |-> Payload,
     path |-> <<>>, layer |-> None, made |-> FALSE, created |-> FALSE, opened |-> FALSE,
     err |-> OK, rerr |-> OK, result |-> EmptyBytes, at |-> "start"]

\* IdResolver.open: the format, the compression, the address and the layer of a call
RaceFormat(args) == IF args.format = None THEN chain[1].format ELSE args.format

RaceCompression(args) ==
    IF args.compression = DEFAULT THEN chain[1].compression ELSE args.compression

RacePath(args) == _path(chain[1], IdA, RaceFormat(args), RaceCompression(args), args.suffix)

RaceLayer(args, skip_compression) ==
    IF skip_compression \/ RaceFormat(args) = PARQUET THEN None
    ELSE _decompress(RaceFormat(args), RaceCompression(args))

InitRace ==
    /\ \E primary \in RacePrimaries : chain = <<primary, LocalBz2>>
    /\ \E first \in {EmptyTier,
                     WithFile(EmptyTier, _path(chain[1], IdA, JSON, chain[1].compression, None),
                              Bytes("json", "X", GoodEnc(chain[1])))} :
          store = <<first, WithFile(EmptyTier, _path(LocalBz2, IdA, JSON, BZ2, None),
                                    Bytes("json", "X", <<BZ2>>))>>
    /\ procs \in [Callers -> {Starting(call) : call \in RaceCalls}]
    /\ buffers = <<NoBuffers, NoBuffers>>
    /\ last = [NoCall EXCEPT !.pre = store]
    /\ done = {}
    /\ ops = 0
    /\ given = [api |-> "race", dicts |-> <<>>, fallback |-> "instance"]
    /\ archives = <<>>
    /\ writers = <<>>
    /\ sha1 = <<>>
    /\ digits = 0
    /\ subject = None
    /\ applied = NoName
    /\ block = NoBlock

Failed(proc, err) == [proc EXCEPT !.at = proc.pc, !.pc = "failed", !.err = err]

\* super().open(id, **kwargs) of FallbackResolver.open, the first time and after the copy:
\* the primary's file is opened for reading
RacePrimaryOpen(p) ==
    /\ procs[p].pc \in {"start", "reopen"}
    /\ LET proc == procs[p]
           full_path == RacePath(proc.args)
           e == PathOpenErr(store[1], full_path, "rb")
           layer == RaceLayer(proc.args, FALSE)
       IN procs' = [procs EXCEPT ![p] =
                       IF e = OK
                       THEN IF layer = <<"missing">> THEN Failed(proc, "AssertionError")
                            ELSE [proc EXCEPT !.pc = "reading", !.path = full_path,
                                              !.layer = layer, !.at = proc.pc]
                       ELSE IF e \in NotFound /\ proc.pc = "start"
                       THEN [proc EXCEPT !.pc = "fetch"]
                       ELSE Failed(proc, e)]
    /\ UNCHANGED <<resolver_vars, ziptree_vars, names_vars, scope_vars>>

\* copy_between_resolvers: input = Volume(id, id_resolver = self.fallback), which reads the
\* fallback and parses what it read
RaceVolume(p) ==
    /\ procs[p].pc = "fetch"
    /\ LET Parsed(input) ==
               IF input.err # OK THEN Failed(procs[p], input.err)
               ELSE [procs[p] EXCEPT !.pc = "parse"]
       IN procs' = [procs EXCEPT ![p] =
                       Parsed(JsonRead(Resolver_open(chain,
                                                     [store |-> store, buffers |-> buffers,
                                                      log |-> <<>>],
                                                     2, IdA, None, None, "rb", FALSE, DEFAULT),
                                       TRUE))]
    /\ UNCHANGED <<resolver_vars, ziptree_vars, names_vars, scope_vars>>

\* JsonFileHandler.write, up to the bytes to write: outside_volume.parser._parse_json(object =
\* False, skip_compression = skip_compression) reads the fallback again
RaceParse(p) ==
    /\ procs[p].pc = "parse"
    /\ LET skip_compression == chain[2].compression = chain[1].compression
                                  /\ chain[1].compression # DEFAULT
           Fetched(json_bytestring) ==
               IF json_bytestring.err # OK THEN Failed(procs[p], json_bytestring.err)
               ELSE [procs[p] EXCEPT !.pc = "open_w", !.data = json_bytestring.data,
                                     !.skip = skip_compression,
                                     !.wargs = [suffix |-> None, format |-> JSON,
                                                compression |-> chain[1].compression]]
       IN procs' = [procs EXCEPT ![p] =
                       Fetched(JsonRead(Resolver_open(chain,
                                                      [store |-> store, buffers |-> buffers,
                                                       log |-> <<>>],
                                                      2, IdA, None, None, "rb", skip_compression,
                                                      DEFAULT),
                                        FALSE))]
    /\ UNCHANGED <<resolver_vars, ziptree_vars, names_vars, scope_vars>>

\* full_path.open(mode = 'wb') of FilesystemResolver._open, the first attempt and the one
\* after the mkdir, and the layer IdResolver.open wraps around the file it opened
RaceWriteOpen(p) ==
    /\ procs[p].pc \in {"open_w", "retry_w"}
    /\ LET proc == procs[p]
           full_path == RacePath(proc.wargs)
           e == PathOpenErr(store[1], full_path, "wb")
           layer == RaceLayer(proc.wargs, proc.skip)
       IN /\ procs' = [procs EXCEPT ![p] =
                          IF e = OK
                          THEN IF layer = <<"missing">>
                               THEN [Failed(proc, "AssertionError") EXCEPT !.path = full_path,
                                                                           !.created = TRUE]
                               ELSE [proc EXCEPT !.pc = "writing", !.path = full_path,
                                                 !.layer = layer, !.created = TRUE,
                                                 !.opened = TRUE]
                          ELSE IF e = "FileNotFoundError" /\ proc.pc = "open_w"
                          THEN [proc EXCEPT !.pc = "mkdir", !.path = full_path]
                          ELSE [Failed(proc, e) EXCEPT !.path = full_path]]
          /\ store' = IF e = OK THEN [store EXCEPT ![1] = Truncate(@, full_path)] ELSE store
    /\ UNCHANGED <<chain, buffers, last, done, ops, given, ziptree_vars, names_vars, scope_vars>>

\* full_path.parent.mkdir(parents = True, exist_ok = True)
RaceMkdir(p) ==
    /\ procs[p].pc = "mkdir"
    /\ store' = [store EXCEPT ![1] = Mkdir(@, procs[p].path)]
    /\ procs' = [procs EXCEPT ![p] = [@ EXCEPT !.pc = "retry_w", !.made = TRUE]]
    /\ UNCHANGED <<chain, buffers, last, done, ops, given, ziptree_vars, names_vars, scope_vars>>

\* fout.write(data) and the end of the with block that closes the stream
RaceClose(p) ==
    /\ procs[p].pc = "writing"
    /\ store' = StreamWrite([store |-> store, buffers |-> buffers, log |-> <<>>], 1,
                            [raw |-> EmptyBytes, layer |-> procs[p].layer, path |-> procs[p].path],
                            procs[p].data).store
    /\ procs' = [procs EXCEPT ![p] =
                    [@ EXCEPT !.pc = IF procs[p].call = "read" THEN "reopen" ELSE "done"]]
    /\ UNCHANGED <<chain, buffers, last, done, ops, given, ziptree_vars, names_vars, scope_vars>>

\* the caller reads the stream its open returned to the end
RaceRead(p) ==
    /\ procs[p].pc = "reading"
    /\ LET stream == [raw |-> store[1].files[procs[p].path], layer |-> procs[p].layer,
                      path |-> procs[p].path]
       IN procs' = [procs EXCEPT ![p] =
                       [@ EXCEPT !.pc = "done", !.rerr = ReadErr(stream),
                                 !.result = IF ReadErr(stream) = OK THEN ReadData(stream)
                                            ELSE EmptyBytes]]
    /\ UNCHANGED <<resolver_vars, ziptree_vars, names_vars, scope_vars>>

NextRace ==
    \/ \E p \in Callers : RacePrimaryOpen(p)
    \/ \E p \in Callers : RaceVolume(p)
    \/ \E p \in Callers : RaceParse(p)
    \/ \E p \in Callers : RaceWriteOpen(p)
    \/ \E p \in Callers : RaceMkdir(p)
    \/ \E p \in Callers : RaceClose(p)
    \/ \E p \in Callers : RaceRead(p)

SpecRace == InitRace /\ [][NextRace]_vars

-----------------------------------------------------------------------------
(* What the properties speak of *)

DirMethods == {"path", "local", "pairtree", "stubbytree"}
JsonCompressions == {None, BZ2, GZ}

IsOpen(mode) == last.op = "open" /\ last.mode = mode

\* a read of tier k alone, as its resolver would serve it without a fallback, on the storage st
Probe(st, k, id, args, skip_compression) ==
    IdResolver_open([store |-> st, buffers |-> last.prebuf, log |-> <<>>], k, "self", chain[k],
                    id, args.suffix, args.format, "rb", skip_compression, args.compression)

\* the read succeeds and its stream can be read to the end
Serves(p) == p.err = OK /\ ReadErr(p.stream) = OK

\* the read yields a well-formed json volume
ServesJson(p) == Serves(p) /\ JsonLoads(ReadData(p.stream), "json") = OK

\* the address of id on the directory tier k, with the tier's own format and compression
Address(k, id) == _path(chain[k], id, chain[k].format, chain[k].compression, None)

\* tier k is a directory backend that stores json under a compression the layer supports
JsonDirTier(k) ==
    /\ chain[k].method \in DirMethods
    /\ chain[k].format = JSON
    /\ chain[k].compression \in JsonCompressions

\* the call's first step was a read of the primary that ended NotFound
Miss(log) ==
    Len(log) >= 1 /\ log[1].tier = 1 /\ log[1].mode = "rb" /\ log[1].err \in NotFound

\* nothing to read for the call at the address the tier resolves it to: no file and no link
\* on a directory backend; no archive, no member or a member that is no regular file on StubbyTar
NothingAt(tier, self, id, args) ==
    LET fmt == IF args.format = None THEN self.format ELSE args.format
        comp == IF args.compression = DEFAULT THEN self.compression ELSE args.compression
    IN IF self.method = "stubbytar"
       THEN LET fin == which_tarfile(self, id)
                member == <<SubSeq(fin[2], 1, Len(fin[2]) - Len(TAR)), fname(id, fmt, comp, args.suffix)>>
            IN \/ fin \notin DOMAIN tier.tars
               \/ member \notin DOMAIN tier.tars[fin]
               \/ tier.tars[fin][member] = DirMember
       ELSE _path(self, id, fmt, comp, args.suffix) \notin DOMAIN tier.files

\* the nearest tier whose own read serves the resource, 0 when no tier does
Nearest(st, id, args) ==
    LET holders == {k \in 1..Len(chain) : Serves(Probe(st, k, id, args, FALSE))}
    IN IF holders = {} THEN 0 ELSE CHOOSE k \in holders : \A j \in holders : k <= j

-----------------------------------------------------------------------------
(* C1 *)

C1_Case ==
    /\ IsOpen("rb")
    /\ last.args = DefaultArgs
    /\ Len(chain) >= 2
    /\ JsonDirTier(1)
    /\ Address(1, last.id) \notin DOMAIN last.pre[1].files
    /\ ServesJson(Probe(last.pre, 2, last.id, DefaultArgs, FALSE))

-----------------------------------------------------------------------------
(* C2 *)

\* C2: once an open for reading has materialized the resource in the primary, a later
\* open for reading with the same arguments succeeds with one read of the primary and
\* nothing else: no tier beyond the primary is opened and no storage changes.
C2_PrimaryHitTerminal ==
    (IsOpen("rb") /\ last.hit)
    => /\ last.err = OK
       /\ Len(last.log) = 1
       /\ last.log[1].tier = 1
       /\ last.log[1].mode = "rb"
       /\ store = last.pre

\* the second of two opens of the same id through a fallback resolver
C2_Witness == IsOpen("rb") /\ last.hit /\ ops = 2 /\ Len(chain) >= 2 /\ last.err = OK

-----------------------------------------------------------------------------
(* C3 *)

NearestJson(st, id) ==
    LET holders == {k \in 1..Len(chain) : ServesJson(Probe(st, k, id, DefaultArgs, FALSE))}
    IN IF holders = {} THEN 0 ELSE CHOOSE k \in holders : \A j \in holders : k <= j

C3_Case ==
    /\ IsOpen("rb")
    /\ last.args = DefaultArgs
    /\ NearestJson(last.pre, last.id) >= 2
    /\ \A j \in 1..(NearestJson(last.pre, last.id) - 1) :
          JsonDirTier(j) /\ Address(j, last.id) \notin DOMAIN last.pre[j].files

-----------------------------------------------------------------------------
(* C4 *)

\* C4: when the primary's open for reading fails with an error that is not of the
\* NotFound class, the fallback resolver's open fails with that error, nothing but the
\* primary was opened, and no storage changes.
C4_OtherErrorsPropagate ==
    (last.op = "open" /\ last.mode # "wb" /\ Len(chain) >= 2
        /\ last.log[1].err \notin (NotFound \cup {OK}))
    => /\ last.err = last.log[1].err
       /\ Len(last.log) = 1
       /\ store = last.pre

\* a primary whose file may not be opened, in front of a fallback
C4_Witness ==
    /\ IsOpen("rb")
    /\ Len(chain) >= 2
    /\ last.log[1].err = "PermissionError"
    /\ Serves(Probe(last.pre, 2, last.id, last.args, FALSE))

-----------------------------------------------------------------------------
(* C5 *)

\* C5: an open for writing through a fallback resolver opens the primary only, whatever
\* the primary answers: no tier behind it is opened and none of them changes.
C5_WriteNeverTouchesFallback ==
    (IsOpen("wb") /\ Len(chain) >= 2)
    => /\ \A i \in DOMAIN last.log : last.log[i].tier = 1
       /\ \A k \in 2..Len(chain) : store[k] = last.pre[k]

-----------------------------------------------------------------------------
(* C6 *)

\* C6: a fallback resolver made with fallback = None can be constructed.
C6_NoFallbackConstructs ==
    (last.op = "make_fallback_resolver" /\ given.fallback = "None") => last.err = OK

-----------------------------------------------------------------------------
(* C7 *)

\* C7: when, after a miss of the primary, every read of the tiers behind it fails, the
\* open fails, the primary is never opened for writing and no tier's storage changes.
C7_FailedFetchWritesNothing ==
    (/\ IsOpen("rb")
     /\ Len(chain) >= 2
     /\ Miss(last.log)
     /\ \E i \in DOMAIN last.log : last.log[i].tier >= 2
     /\ \A i \in DOMAIN last.log : last.log[i].tier >= 2 => last.log[i].err # OK)
    => /\ last.err # OK
       /\ \A i \in DOMAIN last.log : last.log[i].mode # "wb"
       /\ store = last.pre

-----------------------------------------------------------------------------
(* C8 *)

\* the members an archive holds for an id
MembersFor(id) ==
    SelectSeq(archives[which_zipfile(id)], LAMBDA m : m.name = ZiptreeFname(id))

\* C8: however the steps of two writers interleave, an archive holds at most one member
\* for an id, and once both have written the same id exactly one member is there and at
\* least one of them was refused with the conflict, having added nothing.
C8_DuplicateWriteRejected ==
    \A id \in ZipIds :
        /\ Len(MembersFor(id)) <= 1
        /\ (\A w \in Writers : writers[w].pc = "done" /\ writers[w].id = id)
              => /\ Len(MembersFor(id)) = 1
                 /\ \E w \in Writers : writers[w].err = "Conflict"

-----------------------------------------------------------------------------
(* C9 *)

\* C9: an open for writing on an Http or StubbyTar resolver, alone or as the primary of
\* a fallback resolver, fails with NotImplementedError before any address is computed:
\* nothing is requested, no archive is opened, no handle is registered, no storage
\* changes and no tier behind it is opened.
C9_ReadOnlyBackendsRejectWrite ==
    (IsOpen("wb") /\ chain[1].method \in {"http", "stubbytar"})
    => /\ last.err = "NotImplementedError"
       /\ Len(last.log) = 1
       /\ last.log[1].tier = 1
       /\ last.log[1].path = <<>>
       /\ store = last.pre
       /\ buffers = last.prebuf

\* a write to a StubbyTar primary whose archive exists, in front of a fallback
C9_Witness ==
    /\ IsOpen("wb")
    /\ Len(chain) = 2
    /\ chain[1].method = "stubbytar"
    /\ which_tarfile(chain[1], last.id) \in DOMAIN last.pre[1].tars

-----------------------------------------------------------------------------
(* C10 *)

C10_Case ==
    /\ IsOpen("rb")
    /\ chain[1].method \in DirMethods \cup {"stubbytar"}
    /\ NothingAt(last.pre[1], chain[1], last.id, last.args)

\* C10: on the Path, Local, Pairtree, Stubbytree and StubbyTar backends an open for
\* reading of an id with nothing at its resolved address fails with FileNotFoundError
\* (every directory on the way to the address being a directory); the caller of a
\* resolver without fallback receives that error.
C10_MissingIsNotFound ==
    C10_Case
    => /\ last.log[1].tier = 1
       /\ last.log[1].err = "FileNotFoundError"
       /\ Len(chain) = 1 => last.err = "FileNotFoundError"

\* a StubbyTar archive whose member for the id is not a regular file
C10_Witness ==
    /\ C10_Case
    /\ Len(chain) = 1
    /\ chain[1].method = "stubbytar"
    /\ which_tarfile(chain[1], last.id) \in DOMAIN last.pre[1].tars
    /\ \E m \in DOMAIN last.pre[1].tars[which_tarfile(chain[1], last.id)] :
          last.pre[1].tars[which_tarfile(chain[1], last.id)][m] = DirMember

-----------------------------------------------------------------------------
(* C11 *)

\* what the server answers to the GET an Http primary sends for the call
HttpAnswer(st, self, id, args) ==
    LET comp == IF args.compression = DEFAULT THEN self.compression ELSE args.compression
        path_or_url == HttpResolver_url(self, id, comp)
    IN IF path_or_url \notin DOMAIN st.web THEN Status404 ELSE st.web[path_or_url]

\* C11: an open for reading on an Http resolver whose GET is answered 404 fails with an
\* error of the NotFound class, so that a fallback resolver with an Http primary goes on
\* to its fallback; answered any other error status it fails with an I/O error that is
\* not of the NotFound class.
C11_Http404IsNotFound ==
    (IsOpen("rb") /\ chain[1].method = "http")
    => /\ HttpAnswer(last.pre[1], chain[1], last.id, last.args) = Status404
          => /\ last.log[1].err \in NotFound
             /\ Len(chain) >= 2 => \E i \in DOMAIN last.log : last.log[i].tier = 2
       /\ HttpAnswer(last.pre[1], chain[1], last.id, last.args) = Status500
          => /\ last.log[1].err \in IOErrors \ NotFound
             /\ last.err = last.log[1].err

-----------------------------------------------------------------------------
(* C12 *)

\* the characters _id_encode writes in place of ':', '/' and '.'
EscapeTargets == {"+", "=", ","}

Has(string, ch) == \E i \in 1..Len(string) : string[i] = ch

Count(string, ch) == Cardinality({i \in 1..Len(string) : string[i] = ch})

EscapeFree(string) == \A i \in 1..Len(string) : string[i] \notin EscapeTargets

\* C12: for every volume part that holds none of '+', '=' and ',' - those with ':', '/'
\* and several '.' among them - _id_decode of its _id_encode is the volume part itself.
C12_DecodeInvertsEncode ==
    (applied.fn = "_id_decode" /\ EscapeFree(applied.via.arg))
    => applied.out = applied.via.arg

\* a volume part with ':', '/' and two '.' has been encoded and decoded
C12_Witness ==
    /\ applied.fn = "_id_decode"
    /\ EscapeFree(applied.via.arg)
    /\ Has(applied.via.arg, ":")
    /\ Has(applied.via.arg, "/")
    /\ Count(applied.via.arg, ".") >= 2
    /\ applied.arg # applied.via.arg

-----------------------------------------------------------------------------
(* C13 *)

\* C13: for every identifier free of '+', '=' and ',', extract_htid returns the identifier
\* from clean_htid of it and from every file name fname gives it with a suffix of none,
\* meta, tokens, chars or section, a format of json or parquet and a compression of none,
\* gz or bz2.
C13_ExtractInvertsFname ==
    (/\ applied.fn = "extract_htid"
     /\ EscapeFree(subject)
     /\ \/ applied.via.fn = "clean_htid"
        \/ /\ applied.via.fn = "fname"
           /\ applied.via.format \in Formats
           /\ applied.via.compression \in {None, GZ, BZ2})
    => applied.out = subject

-----------------------------------------------------------------------------
(* C14 *)

\* the open of the identifier in its encoded form
OpenedEncoded ==
    /\ applied.fn = "open"
    /\ applied.id = clean_htid(subject)
    /\ applied.mode = "rb"
    /\ applied.args = DefaultArgs
    /\ ~applied.skip_compression

\* clean_htid applied to what clean_htid returned
CleanedTwice == applied.fn = "clean_htid" /\ applied.via.fn = "clean_htid"

\* C14 as stated: clean_htid of an encoded identifier is that encoded identifier, and a
\* resolver of every backend opens, for the encoded identifier, the address it opens for
\* the identifier itself.
C14_EveryBackendSameAddress ==
    /\ CleanedTwice => applied.out = applied.arg
    /\ OpenedEncoded => applied.path = Located(applied.self, subject, DefaultArgs)

\* the backends whose address is computed from clean_htid and the encoded volume part
EncodingBackend(self) ==
    \/ self.method \in {"local", "pairtree", "stubbytree", "stubbytar"}
    \/ self.method = "http" /\ self.url \in {"stubbypath", "pairtreepath"}

\* C14, amended: clean_htid of an encoded identifier is that encoded identifier, and a
\* Local, Pairtree, Stubbytree or StubbyTar resolver, and an Http resolver whose url holds
\* {stubbypath} or {pairtreepath}, opens for the encoded identifier the address it opens
\* for the identifier itself.
C14_EncodedIdSameAddress ==
    /\ CleanedTwice => applied.out = applied.arg
    /\ (OpenedEncoded /\ EncodingBackend(applied.self))
          => applied.path = Located(applied.self, subject, DefaultArgs)

\* an identifier that encoding changes, opened in its encoded form through a Pairtree resolver
C14_Witness ==
    /\ OpenedEncoded
    /\ applied.self.method = "pairtree"
    /\ clean_htid(subject) # subject
    /\ applied.err = OK

-----------------------------------------------------------------------------
(* C15 *)

\* the call returned what fname returns for its arguments whenever it is called
SameAgain ==
    applied.out = fname(subject, applied.format, applied.compression, applied.suffix)

\* another suffix, and another format, give another name
SuffixAndFormatMatter ==
    /\ \A suffix \in Suffixes \ {applied.suffix} :
          fname(subject, applied.format, applied.compression, suffix) # applied.out
    /\ \A format \in (Formats \cup {None}) \ {applied.format} :
          fname(subject, format, applied.compression, applied.suffix) # applied.out

\* C15 as stated: fname returns the same name for the same arguments, whatever resolver
\* it is called on, and another name when one of suffix, format and compression is changed.
C15_EveryArgumentMatters ==
    applied.fn = "fname"
    => /\ SameAgain
       /\ SuffixAndFormatMatter
       /\ \A compression \in Compressions \ {applied.compression} :
             fname(subject, applied.format, compression, applied.suffix) # applied.out

\* C15, amended: fname returns the same name for the same arguments, whatever resolver it
\* is called on; another suffix or another format gives another name; another compression
\* gives another name when the format is not parquet and the same name when it is.
C15_PureAndSensitive ==
    applied.fn = "fname"
    => /\ SameAgain
       /\ SuffixAndFormatMatter
       /\ \A compression \in Compressions \ {applied.compression} :
             (fname(subject, applied.format, compression, applied.suffix) = applied.out)
                <=> (applied.format = PARQUET)

\* the name of a parquet file asked for with a compression
C15_Witness ==
    /\ applied.fn = "fname"
    /\ applied.format = PARQUET
    /\ applied.compression = SNAPPY
    /\ applied.suffix = TOKENS

-----------------------------------------------------------------------------
(* C16 *)

\* a segment of a file name: a dot and the part, or nothing
Segment(present, part) == IF present THEN <<".">> \o part ELSE <<>>

\* C16: fname is the encoded id, then '.suffix' exactly when a suffix is given, then
\* '.format', then '.compression' exactly when a compression is given and the format is
\* not parquet.
C16_FilenameConvention ==
    (applied.fn = "fname" /\ applied.format # None)
    => applied.out = clean_htid(subject)
                        \o Segment(applied.suffix # None, applied.suffix)
                        \o Segment(TRUE, applied.format)
                        \o Segment(applied.compression # None /\ applied.format # PARQUET,
                                   applied.compression)

\* tokens + parquet + snappy, and json + gz without a suffix
C16_Witness ==
    /\ applied.fn = "fname"
    /\ \/ applied.format = PARQUET /\ applied.compression = SNAPPY /\ applied.suffix = TOKENS
          /\ EndsWith(applied.out, <<".">> \o TOKENS \o <<".">> \o PARQUET)
       \/ applied.format = JSON /\ applied.compression = GZ /\ applied.suffix = None
          /\ EndsWith(applied.out, <<".">> \o JSON \o <<".">> \o GZ)

-----------------------------------------------------------------------------
(* C17 *)

RECURSIVE Flatten(_)
Flatten(pieces) == IF pieces = <<>> THEN <<>> ELSE Head(pieces) \o Flatten(Tail(pieces))

\* the directories of a pairtree path are the library, 'pairtree_root', the shards and the
\* encoded volume part; the shards are ceil(len / 2) pieces of two characters, the last of
\* one when the length is odd, that make up the encoded volume part
PairtreeDirs(dirs) ==
    LET enc == _id_encode(volid(subject))
        shards == SubSeq(dirs, 3, Len(dirs) - 1)
    IN /\ Len(dirs) = ((Len(enc) + 1) \div 2) + 2 + 1
       /\ dirs[1] = libid(subject)
       /\ dirs[2] = PAIRTREE_ROOT
       /\ dirs[Len(dirs)] = enc
       /\ \A i \in 1..(Len(shards) - 1) : Len(shards[i]) = 2
       /\ Len(shards[Len(shards)]) = (IF Len(enc) % 2 = 1 THEN 1 ELSE 2)
       /\ Flatten(shards) = enc

\* a write through a Pairtree resolver that succeeded
PairtreeWritten ==
    /\ applied.fn = "open"
    /\ applied.self.method = "pairtree"
    /\ applied.mode = "wb"
    /\ applied.err = OK

\* C17: id_to_pairtree returns lib / pairtree_root / shards / encoded volume part / file
\* name, and a write through a Pairtree resolver leaves exactly one file, named by fname,
\* in that directory under the resolver's base directory, and no directory but those on
\* the way to it.
C17_PairtreePath ==
    /\ applied.fn = "id_to_pairtree"
          => /\ PairtreeDirs(Parent(applied.out))
             /\ applied.out[Len(applied.out)] =
                   clean_htid(subject) \o Segment(applied.format # None, applied.format)
                                       \o Segment(applied.compression # None, applied.compression)
    /\ PairtreeWritten
          => /\ DOMAIN applied.files = {applied.path}
             /\ PairtreeDirs(Parent(applied.path))
             /\ applied.path[Len(applied.path)] =
                   fname(subject,
                         IF applied.args.format = None THEN applied.self.format
                         ELSE applied.args.format,
                         IF applied.args.compression = DEFAULT THEN applied.self.compression
                         ELSE applied.args.compression,
                         applied.args.suffix)
             /\ applied.dirs = Ancestors(applied.path)

\* a write of an identifier whose encoded volume part has an odd number of characters
C17_Witness ==
    /\ PairtreeWritten
    /\ Len(volid(subject)) = 3
    /\ Has(subject, ":")
    /\ applied.files[applied.path] = Compress(Payload, applied.layer)

-----------------------------------------------------------------------------
(* C18 *)

\* the directories of a stubbytree path are the library and one directory below it, named
\* by the first, fourth, seventh ... character of the encoded volume part
StubbytreeDirs(dirs) ==
    LET enc == _id_encode(volid(subject))
    IN /\ Len(dirs) = 2
       /\ dirs[1] = libid(subject)
       /\ Len(dirs[2]) = (Len(enc) + 2) \div 3
       /\ \A i \in 1..Len(dirs[2]) : dirs[2][i] = enc[3 * i - 2]

\* an open through a Stubbytree resolver
StubbytreeOpened == applied.fn = "open" /\ applied.self.method = "stubbytree"

\* C18: id_to_stubbytree returns lib / encoded volume part [::3] / file name, one directory
\* between the library and the file name, and a Stubbytree resolver opens the file fname
\* names in that directory under its base directory.
C18_StubbytreePath ==
    /\ applied.fn = "id_to_stubbytree"
          => /\ StubbytreeDirs(Parent(applied.out))
             /\ applied.out[Len(applied.out)] =
                   clean_htid(subject) \o Segment(applied.format # None, applied.format)
                                       \o Segment(applied.compression # None, applied.compression)
    /\ (StubbytreeOpened /\ applied.id = subject)
          => /\ StubbytreeDirs(Parent(applied.path))
             /\ applied.path[Len(applied.path)] =
                   fname(subject,
                         IF applied.args.format = None THEN applied.self.format
                         ELSE applied.args.format,
                         IF applied.args.compression = DEFAULT THEN applied.self.compression
                         ELSE applied.args.compression,
                         applied.args.suffix)

\* a read through a Stubbytree resolver of an identifier whose volume part has four
\* characters, the first of them one that encoding changes
C18_Witness ==
    /\ StubbytreeOpened
    /\ applied.id = subject
    /\ applied.mode = "rb"
    /\ applied.err = OK
    /\ Len(volid(subject)) = 4
    /\ volid(subject)[1] = "/"
    /\ Len(applied.path[2]) = 2

-----------------------------------------------------------------------------
(* C19 *)

\* the read back of a write of json under no compression, gz or bz2
RoundTrip ==
    /\ applied.fn = "read_back"
    /\ (IF applied.via.args.format = None THEN applied.via.self.format
        ELSE applied.via.args.format) = JSON
    /\ (IF applied.via.args.compression = DEFAULT THEN applied.via.self.compression
        ELSE applied.via.args.compression) \in JsonCompressions

\* C19: on every backend that can be written, bytes written as json under no compression,
\* gz or bz2 are the bytes a resolver made anew with the same settings reads for the same
\* id, format, compression and suffix.
C19_WriteThenReadRoundTrip ==
    RoundTrip => /\ applied.err = OK
                 /\ applied.rerr = OK
                 /\ applied.data = Payload

\* a round trip under gz through a Pairtree resolver, of an identifier that encoding changes
C19_Witness ==
    /\ RoundTrip
    /\ applied.via.self.method = "pairtree"
    /\ applied.via.layer = GZ
    /\ clean_htid(subject) # subject
    /\ applied.via.files[applied.via.path] # Payload

-----------------------------------------------------------------------------
(* C20 *)

\* the format and the compression IdResolver.open resolves for the call
OpenedFormat == IF applied.args.format = None THEN applied.self.format ELSE applied.args.format

OpenedCompression ==
    IF applied.args.compression = DEFAULT THEN applied.self.compression
    ELSE applied.args.compression

\* C20: an open of format parquet resolves, under any compression, the address it resolves
\* under no compression, and returns the raw stream unwrapped; an open of any other format
\* returns the raw stream unwrapped exactly when the compression is none or skip_compression
\* is set, and wrapped in a bz2 / gzip layer under bz2 / gz.
C20_CompressionIgnoredForParquet ==
    (applied.fn = "open" /\ applied.mode = "rb") =>
        IF OpenedFormat = PARQUET
        THEN /\ applied.path = Located(applied.self, applied.id,
                                       [applied.args EXCEPT !.compression = None])
             /\ applied.err = OK
             /\ applied.layer = None
        ELSE /\ (applied.err = OK /\ applied.layer = None)
                    <=> (OpenedCompression = None \/ applied.skip_compression)
             /\ (OpenedCompression \in {BZ2, GZ} /\ ~applied.skip_compression)
                    => (applied.err = OK /\ applied.layer = OpenedCompression)

-----------------------------------------------------------------------------
(* C21 *)

\* the last n elements of a sequence
Tail_n(seq, n) == SubSeq(seq, Len(seq) - n + 1, Len(seq))

\* C21: when a with block of a resolver has been left - by its end, a return or an
\* exception - every handle registered since the block was entered has been closed, in the
\* order of registration, active_buffers is empty, and the exception raised in the block,
\* if any, goes on to the caller.
C21_ExitClosesEveryHandle ==
    block.pc = "left" =>
        /\ Len(block.closed) >= Len(block.acquired)
        /\ Tail_n(block.closed, Len(block.acquired))
               = [i \in 1..Len(block.acquired) |-> [block.acquired[i] EXCEPT !.closed = TRUE]]
        /\ buffers[1].self = <<>>
        /\ block.raised = block.exc

\* a block left by a NotFound after it registered the archives of two ids
C21_Witness ==
    /\ block.pc = "left"
    /\ block.exc \in NotFound
    /\ Len(block.acquired) >= 2
    /\ block.acquired[1].tar # block.acquired[2].tar
    /\ block.raised \in NotFound

-----------------------------------------------------------------------------
(* C22 *)

\* C22: after an open for reading whose stream the consumer has read and closed, no
\* resolver of the chain has an archive handle left in its active_buffers - whether the
\* open succeeded or ended NotFound, and whether the StubbyTar resolver was opened by the
\* caller or by a fallback resolver on the caller's behalf.
C22_NoArchiveHandleRemains ==
    IsOpen("rb") =>
        \A k \in 1..Len(chain) : buffers[k].self = <<>> /\ buffers[k].super = <<>>

-----------------------------------------------------------------------------
(* C23 *)

\* C23: chain_resolver applied to a list of n >= 1 tier configs returns a resolver of n
\* nodes: node k has the backend kind and the settings of the k-th config and node k + 1,
\* if there is one, as its fallback; the caller's list is what it was before the call.
C23_ChainInGivenOrder ==
    [][(last.op = "none" /\ last'.op = "chain_resolver")
          => /\ Len(given.dicts) >= 1
             /\ Len(chain') = Len(given.dicts)
             /\ \A k \in 1..Len(given.dicts) : chain'[k] = given.dicts[k]
             /\ given'.dicts = given.dicts]_vars

\* a chain of three tiers of different settings has been built
C23_Witness ==
    /\ last.op = "chain_resolver"
    /\ Len(chain) = 3
    /\ chain[1] # chain[2]
    /\ given.dicts = chain

-----------------------------------------------------------------------------
(* C24 *)

\* C24: an open whose mode is neither 'rb' nor 'wb' raises an error before any backend is
\* touched: no address is opened, storage and the registered handles are what they were, and
\* a fallback resolver does not consult its fallback.
C24_OtherModeRejected ==
    (last.op = "open" /\ last.mode \notin {"rb", "wb"}) =>
        /\ last.err = "TypeError"
        /\ store = last.pre
        /\ buffers = last.prebuf
        /\ \A i \in 1..Len(last.log) : last.log[i].tier = 1 /\ last.log[i].path = <<>>

\* an open in mode 'ab' through a fallback resolver whose primary holds nothing for the id and
\* whose fallback serves it
C24_Witness ==
    /\ last.op = "open"
    /\ last.mode = "ab"
    /\ Len(chain) = 2
    /\ chain[1].method \in DirMethods
    /\ NothingAt(store[1], chain[1], last.id, last.args)
    /\ Serves(Probe(store, 2, last.id, last.args, FALSE))

-----------------------------------------------------------------------------
(* C26 *)

\* the relative path a Stubbytree resolver of the same format and compression resolves
StubbytreeOf(self) == [self EXCEPT !.method = "stubbytree"]

\* the relative path a Pairtree resolver of the same format and compression resolves
PairtreeOf(self) == [self EXCEPT !.method = "pairtree"]

\* C26: the address an Http resolver requests for an open is, under a {stubbypath} template,
\* the relative path a Stubbytree resolver resolves for the same id, format, compression and
\* suffix, and under a {pairtreepath} template the one a Pairtree resolver resolves.
C26_HttpAddressIsTreePath ==
    (applied.fn = "open" /\ applied.mode = "rb" /\ applied.self.method = "http") =>
        /\ applied.self.url = "stubbypath"
              => applied.path = Located(StubbytreeOf(applied.self), applied.id, applied.args)
        /\ applied.self.url = "pairtreepath"
              => applied.path = Located(PairtreeOf(applied.self), applied.id, applied.args)

-----------------------------------------------------------------------------
(* C27 *)

\* the open missed the primary, the copy from the fallback to the primary completed, and
\* the primary was opened again: the last step of the call
Reopened(log) ==
    /\ Miss(log)
    /\ Materialized(log)
    /\ Len(log) > 1
    /\ log[Len(log)].tier = 1
    /\ log[Len(log)].mode = "rb"

\* C27: whenever the copy from the fallback to the primary completes, the second open of
\* the primary succeeds and the call returns its stream, whatever suffix, format and
\* compression the call was made with: the address written is the address read again.
C27_MaterializedReopenSucceeds ==
    (IsOpen("rb") /\ Len(chain) >= 2 /\ Reopened(last.log)) =>
        /\ last.log[Len(last.log)].err = OK
        /\ last.err = OK
        /\ \E i \in 1..(Len(last.log) - 1) :
              /\ last.log[i].tier = 1
              /\ last.log[i].mode = "wb"
              /\ last.log[i].path = last.log[Len(last.log)].path

(* C28 *)

\* the number of opens of the tiers behind the primary that the call made
FallbackOpens(log) == Cardinality({i \in 1..Len(log) : log[i].tier = 2})

\* the first open of the primary for writing, 0 if there is none
FirstWrite(log) ==
    LET writes == {i \in 1..Len(log) : log[i].tier = 1 /\ log[i].mode = "wb"}
    IN IF writes = {} THEN 0 ELSE CHOOSE i \in writes : \A j \in writes : i <= j

\* C28: one open for reading that misses the primary opens the fallback for the id exactly
\* once, and before the primary is opened for writing.
C28_FallbackOpenedOnce ==
    (IsOpen("rb") /\ Len(chain) = 2 /\ Miss(last.log)) =>
        /\ FallbackOpens(last.log) = 1
        /\ FirstWrite(last.log) # 0
              => \E i \in 1..(FirstWrite(last.log) - 1) : last.log[i].tier = 2

-----------------------------------------------------------------------------
(* C30 *)

\* C30: an open that ends in an error - for reading or for writing, on a plain backend or
\* through a fallback resolver - leaves the storage of every tier as it was.
C30_FailedOpenLeavesStorage ==
    (last.op = "open" /\ last.err # OK) => store = last.pre

-----------------------------------------------------------------------------
(* C25 *)

\* the caller's open for writing ended in an error
WriteOpenFailed(p) == procs[p].pc = "failed" /\ procs[p].at \in {"open_w", "retry_w"}

\* the directories and the files of the primary are those it had, the ancestors of the
\* addresses whose writer made directories, and the files the writers' opens created
ExactlyTheMissing ==
    /\ store[1].dirs = last.pre[1].dirs
                          \cup UNION {Ancestors(procs[p].path) : p \in {q \in Callers : procs[q].made}}
    /\ DOMAIN store[1].files = DOMAIN last.pre[1].files
                                  \cup {procs[p].path : p \in {q \in Callers : procs[q].created}}
    /\ \A p \in Callers : procs[p].opened =>
          /\ Ancestors(procs[p].path) \subseteq store[1].dirs
          /\ procs[p].path \in DOMAIN store[1].files

\* C25 as stated: on a directory backend an open for writing succeeds, also when the
\* directories of its address are missing and also when another writer makes them at the
\* same time; it makes the missing ancestor directories of the address and the one file.
C25_WriteMakesDirectories ==
    /\ \A p \in Callers : ~WriteOpenFailed(p)
    /\ ExactlyTheMissing

\* the layer supports the compression of the caller's write for its format
Supported(p) == RaceLayer(procs[p].wargs, procs[p].skip) # <<"missing">>

\* C25, amended: on a directory backend an open for writing under a compression the layer
\* supports for the format succeeds, also when the directories of its address are missing
\* and also when another writer makes them at the same time; it makes the missing ancestor
\* directories of the address and the one file.
C25_SupportedWriteMakesDirectories ==
    /\ \A p \in Callers : Supported(p) => ~WriteOpenFailed(p)
    /\ ExactlyTheMissing

\* two writers of one address below directories that did not exist: each found them
\* missing, each called mkdir, and each has written its file
C25_Witness ==
    /\ last.pre[1].dirs = {}
    /\ \A p \in Callers :
          /\ procs[p].made
          /\ procs[p].opened
          /\ procs[p].pc = "done"
          /\ Len(procs[p].path) > 2
    /\ procs[1].call = "write"
    /\ procs[1].path = procs[2].path

-----------------------------------------------------------------------------
(* C29 *)

\* C29: when two callers open the same id for reading through fallback resolvers over the
\* same primary, which holds nothing for the id, each call returns the complete content
\* of the fallback's volume, however their steps interleave.
C29_ConcurrentReadsComplete ==
    ((\A p \in Callers : procs[p].call = "read")
        /\ NothingAt(last.pre[1], chain[1], IdA, DefaultArgs))
    => \A p \in Callers :
          /\ procs[p].pc # "failed"
          /\ procs[p].pc = "done"
                => procs[p].rerr = OK /\ procs[p].result = Bytes("json", "X", <<>>)

====
